---------------------------- MODULE Spec2Model ----------------------------
(***************************************************************************)
(* Koney deception-policy controller: the reconciliation engine            *)
(* (finalizer handling, trap validation, matching, decoy and captor        *)
(* deployment, the per-workload ledger annotation, removal of dropped      *)
(* traps, the requeue decision, the status flush) together with the watch  *)
(* fan-out and the event filter, run against a small cluster.              *)
(***************************************************************************)
EXTENDS Integers, Sequences, FiniteSets, TLC

VARIABLES
    policies,        \* DeceptionPolicy objects by name
    workloads,       \* pods and deployments by id
    secrets,         \* secrets as <<namespace, name>>
    tracingPolicies, \* tracing policies as [name, owner]
    queue,           \* policy names with a pending reconcile request
    timer,           \* per policy: the pending RequeueAfter ("none", "short", "long")
    now,             \* the clock timestamps are taken from
    budget,          \* cluster events still allowed to the environment
    last,            \* what the most recent step did (observation only)
    resourceVersion, \* per workload: the stored metadata.resourceVersion
    calls            \* per client: the API call sequence it is in the middle of

vars == <<policies, workloads, secrets, tracingPolicies, queue, timer, now, budget, last,
          resourceVersion, calls>>

(***************************************************************************)
(* Bounds of the model.                                                    *)
(***************************************************************************)
MaxTime == 1
MaxEvents == 3

MaxLiveEvents == 4

(***************************************************************************)
(* Program constants.                                                      *)
(***************************************************************************)
NormalFailureRetryInterval == 60
ShortStatusCheckInterval == 10
FinalizerName == "koney/finalizer"
AnnotationKeyChanges == "koney/changes"

(***************************************************************************)
(* Small helpers on sequences.                                             *)
(***************************************************************************)
Range(s) == {s[i] : i \in DOMAIN s}

Contains(s, e) == \E i \in DOMAIN s : s[i] = e

RECURSIVE SeqFilter(_, _)
SeqFilter(s, keep) ==
    IF s = <<>> THEN <<>>
    ELSE IF Head(s) \in keep THEN <<Head(s)>> \o SeqFilter(Tail(s), keep)
         ELSE SeqFilter(Tail(s), keep)

RECURSIVE AppendMissing(_, _)
AppendMissing(s, extra) ==
    IF extra = <<>> THEN s
    ELSE AppendMissing(IF Contains(s, Head(extra)) THEN s ELSE Append(s, Head(extra)),
                       Tail(extra))

FirstIndex(s, P(_)) ==
    IF \E i \in DOMAIN s : P(s[i])
    THEN CHOOSE i \in DOMAIN s : P(s[i]) /\ \A j \in 1..(i - 1) : ~P(s[j])
    ELSE 0

\* F applied to the value of v: v is computed once, as a local variable of
\* the code is.
Bind(v, F(_)) == CHOOSE y \in {F(x) : x \in {v}} : TRUE

(***************************************************************************)
(* Traps.  A file path is the sequence of its "/"-separated segments, so   *)
(* an absolute path starts with the empty segment; a file content is the   *)
(* sequence of its pieces, a line break being the piece "\n".              *)
(***************************************************************************)
Hash(content) == <<"md5", content>>

ZeroHoneytoken == [filePath |-> <<>>, fileContent |-> <<>>, readOnly |-> FALSE]

TokenPath == <<"", "run", "service_token">>
MountPath == <<"", "etc", "token">>

HoneytokenLabel == "demo.koney/honeytoken=true"

ExecTrap ==
    [filesystemHoneytoken |->
        [filePath |-> TokenPath, fileContent |-> <<"someverysecrettoken">>, readOnly |-> TRUE],
     decoyStrategy |-> "containerExec",
     captorStrategy |-> "tetragon",
     any |-> << [namespaces |-> <<>>, matchLabels |-> {HoneytokenLabel},
                 containerSelector |-> "nginx"] >>]

VolumeTrap ==
    [filesystemHoneytoken |->
        [filePath |-> MountPath, fileContent |-> <<"x", "\n">>, readOnly |-> TRUE],
     decoyStrategy |-> "volumeMount",
     captorStrategy |-> "tetragon",
     any |-> << [namespaces |-> <<"prod">>, matchLabels |-> {},
                 containerSelector |-> "*"] >>]

RelativeTrap ==
    [filesystemHoneytoken |->
        [filePath |-> <<"tmp", "token">>, fileContent |-> <<"y">>, readOnly |-> FALSE],
     decoyStrategy |-> "containerExec",
     captorStrategy |-> "tetragon",
     any |-> << [namespaces |-> <<>>, matchLabels |-> {HoneytokenLabel},
                 containerSelector |-> "*"] >>]

TrapLists ==
    { <<>>, <<ExecTrap>>, <<VolumeTrap>>, <<ExecTrap, VolumeTrap>>, <<ExecTrap, RelativeTrap>> }

TrapType(trap) ==
    IF trap.filesystemHoneytoken # ZeroHoneytoken THEN "FilesystemHoneytoken" ELSE "Unknown"

IsAbs(path) == Len(path) > 0 /\ path[1] = ""

HoneytokenIsValid(f) == IsAbs(f.filePath)

IsValid(trap) ==
    /\ trap.any # <<>>
    /\ \A i \in DOMAIN trap.any :
          ~(trap.any[i].namespaces = <<>> /\ trap.any[i].matchLabels = {})
    /\ trap.filesystemHoneytoken # ZeroHoneytoken
    /\ HoneytokenIsValid(trap.filesystemHoneytoken)

(***************************************************************************)
(* The ledger: the "koney/changes" annotation of a workload, decoded.  An  *)
(* annotation value is [present, changes]; present is FALSE when the key   *)
(* is absent.  changes is a sequence of [deceptionPolicyName, traps].      *)
(***************************************************************************)
NoTime == -1

NoAnnotation == [present |-> FALSE, changes |-> <<>>]

ZeroHoneytokenAnnotation == [filePath |-> <<>>, fileContentHash |-> <<>>, readOnly |-> FALSE]

AnnotationTrapType(rec) ==
    IF rec.filesystemHoneytoken # ZeroHoneytokenAnnotation
    THEN "FilesystemHoneytoken" ELSE "Unknown"

HoneytokenAnnotationEquals(a, b) ==
    /\ a.filePath = b.filePath
    /\ a.fileContentHash = b.fileContentHash
    /\ a.readOnly = b.readOnly

Equals(rec, other, ignoreContainers) ==
    /\ rec.deploymentStrategy = other.deploymentStrategy
    /\ (ignoreContainers \/ rec.containers = other.containers)
    /\ AnnotationTrapType(rec) = "FilesystemHoneytoken"
    /\ HoneytokenAnnotationEquals(rec.filesystemHoneytoken, other.filesystemHoneytoken)

\* A variant that does not compare readOnly.
AreTheSameTrapIgnoringReadOnly(rec, trap) ==
    /\ rec.deploymentStrategy = trap.decoyStrategy
    /\ AnnotationTrapType(rec) = TrapType(trap)
    /\ TrapType(trap) = "FilesystemHoneytoken"
    /\ rec.filesystemHoneytoken.filePath = trap.filesystemHoneytoken.filePath
    /\ rec.filesystemHoneytoken.fileContentHash = Hash(trap.filesystemHoneytoken.fileContent)

AreTheSameTrap(rec, trap) ==
    /\ rec.deploymentStrategy = trap.decoyStrategy
    /\ AnnotationTrapType(rec) = TrapType(trap)
    /\ TrapType(trap) = "FilesystemHoneytoken"
    /\ rec.filesystemHoneytoken.filePath = trap.filesystemHoneytoken.filePath
    /\ rec.filesystemHoneytoken.fileContentHash = Hash(trap.filesystemHoneytoken.fileContent)
    /\ rec.filesystemHoneytoken.readOnly = trap.filesystemHoneytoken.readOnly

convertTrapToTrapAnnotation(trap, containers, t) ==
    [deploymentStrategy |-> trap.decoyStrategy,
     containers |-> containers,
     createdAt |-> t,
     updatedAt |-> NoTime,
     filesystemHoneytoken |->
        [filePath |-> trap.filesystemHoneytoken.filePath,
         fileContentHash |-> Hash(trap.filesystemHoneytoken.fileContent),
         readOnly |-> trap.filesystemHoneytoken.readOnly]]

\* An Add that appends a record whatever the change holds.
AddToTrapsAppending(traps, trap, containers, t) ==
    Append(traps, convertTrapToTrapAnnotation(trap, containers, t))

\* The traps of one change after Add: the first record with the identity of
\* trap gets the container list and a new updatedAt, or a record is appended.
AddToTraps(traps, trap, containers, t) ==
    LET i == FirstIndex(traps, LAMBDA r : AreTheSameTrap(r, trap))
    IN IF i = 0
       THEN Append(traps, convertTrapToTrapAnnotation(trap, containers, t))
       ELSE [traps EXCEPT ![i].updatedAt = t, ![i].containers = containers]

AddTrapToAnnotations(a, crdName, trap, containers, t) ==
    LET old == a.changes
        changeExists == \E i \in DOMAIN old : old[i].deceptionPolicyName = crdName
        kept == [i \in DOMAIN old |->
                    IF old[i].deceptionPolicyName = crdName
                    THEN [old[i] EXCEPT !.traps = AddToTraps(@, trap, containers, t)]
                    ELSE old[i]]
        new == IF changeExists THEN kept
               ELSE Append(kept,
                      [deceptionPolicyName |-> crdName,
                       traps |-> <<convertTrapToTrapAnnotation(trap, containers, t)>>])
    IN [present |-> TRUE, changes |-> new]

\* An UpdateContainers that looks for the record with its container list.
UpdateInTrapsExact(traps, rec, containers, t) ==
    LET i == FirstIndex(traps, LAMBDA r : Equals(r, rec, FALSE))
    IN IF i = 0
       THEN Append(traps, [rec EXCEPT !.createdAt = t, !.containers = containers])
       ELSE [traps EXCEPT ![i].updatedAt = t, ![i].containers = containers]

UpdateInTraps(traps, rec, containers, t) ==
    LET i == FirstIndex(traps, LAMBDA r : Equals(r, rec, TRUE))
    IN IF i = 0
       THEN Append(traps, [rec EXCEPT !.createdAt = t, !.containers = containers])
       ELSE [traps EXCEPT ![i].updatedAt = t, ![i].containers = containers]

UpdateContainersInAnnotations(a, crdName, rec, containers, t) ==
    [present |-> TRUE,
     changes |-> [i \in DOMAIN a.changes |->
                    IF a.changes[i].deceptionPolicyName = crdName
                    THEN [a.changes[i] EXCEPT !.traps = UpdateInTraps(@, rec, containers, t)]
                    ELSE a.changes[i]]]

RECURSIVE DropEmptyChanges(_)
DropEmptyChanges(changes) ==
    IF changes = <<>> THEN <<>>
    ELSE IF Len(Head(changes).traps) > 0
         THEN <<Head(changes)>> \o DropEmptyChanges(Tail(changes))
         ELSE DropEmptyChanges(Tail(changes))

RECURSIVE DropEqual(_, _)
DropEqual(traps, rec) ==
    IF traps = <<>> THEN <<>>
    ELSE IF ~Equals(Head(traps), rec, FALSE)
         THEN <<Head(traps)>> \o DropEqual(Tail(traps), rec)
         ELSE DropEqual(Tail(traps), rec)

RemoveTrapAnnotations(a, crdName, rec) ==
    LET cut == [i \in DOMAIN a.changes |->
                  IF a.changes[i].deceptionPolicyName = crdName
                  THEN [a.changes[i] EXCEPT !.traps = DropEqual(@, rec)]
                  ELSE a.changes[i]]
        new == DropEmptyChanges(cut)
    IN IF Len(new) = 0 THEN NoAnnotation ELSE [present |-> TRUE, changes |-> new]

\* The traps of the change of crdName, empty when there is none.
GetAnnotationChange(a, crdName) ==
    LET i == FirstIndex(a.changes, LAMBDA c : c.deceptionPolicyName = crdName)
    IN IF a.present /\ i # 0 THEN a.changes[i].traps ELSE <<>>

(***************************************************************************)
(* The cluster's workloads.  Kind, namespace, name and containers of a     *)
(* workload are fixed; the rest is state (see WorkloadAt).                 *)
(***************************************************************************)
PolicyNames == {"p1", "p2"}

WorkloadOrder == <<"pod1", "pod2", "pod3", "dep1">>

WorkloadIds == Range(WorkloadOrder)

WorkloadInfo ==
    [w \in WorkloadIds |->
        IF w = "pod1"
        THEN [kind |-> "Pod", namespace |-> "prod", name |-> "web",
              containers |-> <<"nginx", "sidecar">>]
        ELSE IF w = "pod2"
        THEN [kind |-> "Pod", namespace |-> "prod", name |-> "shop",
              containers |-> <<"httpd", "agent">>]
        ELSE IF w = "pod3"
        THEN [kind |-> "Pod", namespace |-> "dev", name |-> "web",
              containers |-> <<"nginx", "debug">>]
        ELSE [kind |-> "Deployment", namespace |-> "prod", name |-> "api",
              containers |-> <<"app", "proxy">>]]

AbsentWorkload ==
    [exists |-> FALSE, createdAt |-> 0, deleting |-> FALSE, labels |-> {},
     phase |-> "", running |-> {}, ready |-> {},
     annotation |-> NoAnnotation, files |-> {}, volumes |-> {}, mounts |-> {}]

\* A fresh workload: in phase Running, every container running and ready (a
\* deployment is Available exactly when all its containers are).
WorkloadAt(w, t, labels) ==
    [AbsentWorkload EXCEPT !.exists = TRUE, !.createdAt = t, !.labels = labels,
                           !.phase = "Running",
                           !.running = Range(WorkloadInfo[w].containers),
                           !.ready = Range(WorkloadInfo[w].containers)]

(***************************************************************************)
(* Matching (package matching).  W is the workload state to match in.      *)
(***************************************************************************)
ContainerSelectorSelectsAll(sel) == sel = "*" \/ sel = ""

\* filepath.Match for the selectors in use, which have no metacharacters.
GlobMatch(pattern, name) == pattern = name

selectContainers(w, sel) ==
    IF ContainerSelectorSelectsAll(sel) THEN WorkloadInfo[w].containers
    ELSE SeqFilter(WorkloadInfo[w].containers,
                   {c \in Range(WorkloadInfo[w].containers) : GlobMatch(sel, c)})

extractObjectNames(objs) == {WorkloadInfo[objs[i]].name : i \in DOMAIN objs}

RECURSIVE AppendByName(_, _)
AppendByName(acc, objs) ==
    IF objs = <<>> THEN acc
    ELSE AppendByName(IF WorkloadInfo[Head(objs)].name \in extractObjectNames(acc)
                      THEN acc ELSE Append(acc, Head(objs)),
                      Tail(objs))

listItemsAsObjects(W, kind, pred(_)) ==
    SeqFilter(WorkloadOrder,
              {w \in WorkloadIds : W[w].exists /\ WorkloadInfo[w].kind = kind /\ pred(w)})

RECURSIVE ListNamespaces(_, _, _)
ListNamespaces(W, kind, namespaces) ==
    IF namespaces = <<>> THEN <<>>
    ELSE listItemsAsObjects(W, kind, LAMBDA w : WorkloadInfo[w].namespace = Head(namespaces))
         \o ListNamespaces(W, kind, Tail(namespaces))

\* The objects of a filter, given those matching its namespaces and those
\* matching its labels.
CombineMatches(filter, matchingByNamespace, matchingByLabels) ==
    AppendByName(
        AppendByName(IF Len(filter.namespaces) = 0 THEN matchingByLabels ELSE <<>>,
                     IF filter.matchLabels = {} THEN matchingByNamespace ELSE <<>>),
        SeqFilter(matchingByNamespace,
                  {o \in Range(matchingByNamespace) :
                      WorkloadInfo[o].name \in extractObjectNames(matchingByLabels)}))

getMatchingObjectsByNamespaceAndLabels(W, kind, filter) ==
    CombineMatches(filter,
        IF Len(filter.namespaces) > 0
        THEN AppendByName(<<>>, ListNamespaces(W, kind, filter.namespaces))
        ELSE <<>>,
        IF filter.matchLabels # {}
        THEN AppendByName(<<>>,
                listItemsAsObjects(W, kind, LAMBDA w : filter.matchLabels \subseteq W[w].labels))
        ELSE <<>>)

MapPut(m, k, v) == [x \in DOMAIN m \cup {k} |-> IF x = k THEN v ELSE m[x]]

getObjectFromMap(name, m) ==
    IF \E o \in DOMAIN m : WorkloadInfo[o].name = name
    THEN {CHOOSE o \in DOMAIN m : WorkloadInfo[o].name = name}
    ELSE {}

\* A variant that appends the selected containers to the list of an object
\* that is in the map already, whether the list holds them or not.
MergeObjectAppending(m, o, selected, found) ==
    IF Len(selected) = 0 THEN m
    ELSE IF found # {}
         THEN MapPut(m, CHOOSE x \in found : TRUE,
                     m[CHOOSE x \in found : TRUE] \o selected)
         ELSE MapPut(m, o, selected)

\* The map after one matching object o with its selected containers.
MergeObject(m, o, selected, found) ==
    IF Len(selected) = 0 THEN m
    ELSE IF found # {}
         THEN MapPut(m, CHOOSE x \in found : TRUE,
                     AppendMissing(m[CHOOSE x \in found : TRUE], selected))
         ELSE MapPut(m, o, selected)

RECURSIVE MergeObjects(_, _, _)
MergeObjects(m, objs, sel) ==
    IF objs = <<>> THEN m
    ELSE Bind(MergeObject(m, Head(objs), selectContainers(Head(objs), sel),
                          getObjectFromMap(WorkloadInfo[Head(objs)].name, m)),
              LAMBDA merged : MergeObjects(merged, Tail(objs), sel))

RECURSIVE MatchFilters(_, _, _, _)
MatchFilters(W, kind, filters, m) ==
    IF filters = <<>> THEN m
    ELSE Bind(MergeObjects(m,
                  getMatchingObjectsByNamespaceAndLabels(W, kind, Head(filters)),
                  Head(filters).containerSelector),
              LAMBDA merged : MatchFilters(W, kind, Tail(filters), merged))

getMatchingObjectsWithContainers(W, kind, any) == MatchFilters(W, kind, any, <<>>)

Restrict(m, keys) == [o \in DOMAIN m \cap keys |-> m[o]]

filterObjectsWithoutDeletionTimestamp(W, m) ==
    Restrict(m, {o \in DOMAIN m : ~W[o].deleting})

\* A variant that also keeps the objects created at the timestamp itself.
filterObjectsCreatedAtOrAfterTimestamp(W, m, policyCreatedAt) ==
    Restrict(m, {o \in DOMAIN m : policyCreatedAt <= W[o].createdAt})

filterObjectsCreatedAfterTimestamp(W, m, policyCreatedAt) ==
    Restrict(m, {o \in DOMAIN m : policyCreatedAt < W[o].createdAt})

\* A readiness filter that keeps every pod and every container.
filterPodsKeepingAll(W, m) == <<m, TRUE>>

\* The ContainersReady condition of a pod is True exactly when every
\* container is ready.
ContainersReadyCondition(W, o) == Range(WorkloadInfo[o].containers) \subseteq W[o].ready

\* The container statuses of pod o whose name is selected and that are
\* running and ready; none when the pod is not in phase Running.
ReadySelected(W, m, o) ==
    IF W[o].phase # "Running" THEN <<>>
    ELSE SeqFilter(WorkloadInfo[o].containers,
                   Range(m[o]) \cap W[o].running \cap W[o].ready)

\* <<objects with their ready selected containers, all ready>>
filterPodsReadyForTraps(W, m) ==
    << [o \in {x \in DOMAIN m : Len(ReadySelected(W, m, x)) > 0} |-> ReadySelected(W, m, o)],
       \A o \in DOMAIN m :
           /\ W[o].phase = "Running"
           /\ ContainersReadyCondition(W, o)
           /\ Range(m[o]) \cap Range(WorkloadInfo[o].containers)
                 \subseteq W[o].running \cap W[o].ready >>

DeploymentAvailable(W, o) == Range(WorkloadInfo[o].containers) \subseteq W[o].ready

filterDeploymentsReadyForTraps(W, m) ==
    << Restrict(m, {o \in DOMAIN m : DeploymentAvailable(W, o)}),
       \A o \in DOMAIN m : DeploymentAvailable(W, o) >>

MatchingResult(matching, filtered) ==
    [deployable |-> filtered[1],
     anyMatched |-> DOMAIN matching # {},
     allReady |-> filtered[2] /\ DOMAIN filtered[1] # {},
     err |-> FALSE]

FilterReady(W, kind, matching) ==
    Bind(IF kind = "Pod" THEN filterPodsReadyForTraps(W, matching)
         ELSE filterDeploymentsReadyForTraps(W, matching),
         LAMBDA filtered : MatchingResult(matching, filtered))

MatchingOfKind(W, kind, trap, createdAfter) ==
    Bind(filterObjectsCreatedAfterTimestamp(W,
            filterObjectsWithoutDeletionTimestamp(W,
                getMatchingObjectsWithContainers(W, kind, trap.any)),
            createdAfter),
         LAMBDA matching : FilterReady(W, kind, matching))

\* [deployable, anyMatched, allReady, err]
GetDeployableObjectsWithContainers(W, trap, createdAfter) ==
    IF trap.decoyStrategy = "containerExec" THEN MatchingOfKind(W, "Pod", trap, createdAfter)
    ELSE IF trap.decoyStrategy = "volumeMount"
         THEN MatchingOfKind(W, "Deployment", trap, createdAfter)
    ELSE [deployable |-> <<>>, anyMatched |-> FALSE, allReady |-> FALSE, err |-> TRUE]

(***************************************************************************)
(* Decoy deployment (package filesystoken).  A reconciliation works on a   *)
(* cluster record cl = [W, S, T, gen, execs]: workloads, secrets, tracing  *)
(* policies, the deployments whose spec an update of this pass changed     *)
(* (their metadata.generation moved), and the exec calls of the pass in    *)
(* order.  fault names what the environment makes fail during the pass.    *)
(***************************************************************************)
ExecSteps == {"mkdir", "write", "cat", "chmod", "rm"}

\* only names the container the failing exec calls are in; "" is every container.
NoFault == [exec |-> "none", tetragon |-> FALSE, only |-> ""]

\* A pass runs without fault, with one kind of exec call failing, or in a
\* cluster without the tracing-policy kind.
Faults ==
    {NoFault, [NoFault EXCEPT !.tetragon = TRUE]}
        \cup {[NoFault EXCEPT !.exec = step] : step \in ExecSteps}

\* The exec call of kind step in container c fails.
Hits(fault, step, c) == fault.exec = step /\ fault.only \in {"", c}

\* One exec call as executeCommandInContainer saw it.
Exec(pod, c, path, step, ok) ==
    [pod |-> pod, container |-> c, path |-> path, step |-> step, ok |-> ok]

TrimSuffix(content) ==
    IF Len(content) > 0 /\ content[Len(content)] = "\n"
    THEN SubSeq(content, 1, Len(content) - 1) ELSE content

FileAt(files, c, path) == {f \in files : f.container = c /\ f.path = path}

\* sh -c "... > path": the file gets the content; an existing file keeps its mode.
WriteFile(files, c, path, content) ==
    LET old == FileAt(files, c, path)
        mode == IF \E f \in old : f.mode = "ro" THEN "ro" ELSE "rw"
    IN (files \ old) \cup {[container |-> c, path |-> path, content |-> content, mode |-> mode]}

Chmod444(files, c, path) ==
    (files \ FileAt(files, c, path))
        \cup {[f EXCEPT !.mode = "ro"] : f \in FileAt(files, c, path)}

ReadFile(files, c, path) ==
    IF FileAt(files, c, path) = {} THEN <<>>
    ELSE (CHOOSE f \in FileAt(files, c, path) : TRUE).content

\* What the write command leaves in the file of container c: the content, or
\* under a fault of the container's shell the content with a newline after
\* it ("newline") or other bytes ("garble").
Stored(fault, c, content) ==
    IF Hits(fault, "newline", c) THEN Append(content, "\n")
    ELSE IF Hits(fault, "garble", c) THEN <<"garbled">>
    ELSE content

\* [cl, err]
deployDecoyWithContainerExec(cl, trap, pod, c, fault) ==
    LET token == trap.filesystemHoneytoken
        written == [cl EXCEPT !.W[pod].files =
                       WriteFile(@, c, token.filePath, Stored(fault, c, token.fileContent))]
        readErr == \/ Hits(fault, "cat", c)
                   \/ TrimSuffix(ReadFile(written.W[pod].files, c, token.filePath))
                          # TrimSuffix(token.fileContent)
        chmodErr == token.readOnly /\ Hits(fault, "chmod", c)
        chmodded == IF token.readOnly /\ ~Hits(fault, "chmod", c)
                    THEN [written EXCEPT !.W[pod].files = Chmod444(@, c, token.filePath)]
                    ELSE written
        Ran(step, ok) == Exec(pod, c, token.filePath, step, ok)
        final == [chmodded EXCEPT !.execs =
                    @ \o <<Ran("mkdir", TRUE), Ran("write", TRUE), Ran("cat", ~readErr)>>
                      \o (IF token.readOnly THEN <<Ran("chmod", ~chmodErr)>> ELSE <<>>)]
    IN IF Hits(fault, "mkdir", c)
       THEN [cl |-> [cl EXCEPT !.execs = Append(@, Ran("mkdir", FALSE))],
             err |-> TRUE]
       ELSE IF Hits(fault, "write", c)
       THEN [cl |-> [cl EXCEPT !.execs = @ \o <<Ran("mkdir", TRUE), Ran("write", FALSE)>>],
             err |-> TRUE]
       ELSE [cl |-> final, err |-> readErr \/ chmodErr]

generateSecretName(trap) ==
    <<"koney-secret", Hash(<<trap.filesystemHoneytoken.filePath, ":",
                             trap.filesystemHoneytoken.fileContent>>)>>

generateVolumeName(filePath) == <<"koney-volume", Hash(filePath)>>

GenerateTetragonTracingPolicyName(trap) == <<"koney-tracing-policy", Hash(trap)>>

createSecret(S, namespace, secretName) == S \cup {[namespace |-> namespace, name |-> secretName]}

\* The API server rejects a pod template with a mount of a volume it does not list.
TemplateValid(volumes, mounts) ==
    \A m \in mounts : \E v \in volumes : v.name = m.volume

\* [cl, err]
deployDecoyWithVolumeMount(cl, trap, dep, c) ==
    LET path == trap.filesystemHoneytoken.filePath
        fileName == IF Len(path) = 0 THEN "" ELSE path[Len(path)]
        secretName == generateSecretName(trap)
        volumeName == generateVolumeName(path)
        S1 == createSecret(cl.S, WorkloadInfo[dep].namespace, secretName)
        old == cl.W[dep]
        volumes == IF \E v \in old.volumes : v.name = volumeName THEN old.volumes
                   ELSE old.volumes \cup {[name |-> volumeName, secret |-> secretName]}
        mounts == IF \E m \in old.mounts : m.container = c /\ m.volume = volumeName
                  THEN old.mounts
                  ELSE old.mounts \cup {[container |-> c, volume |-> volumeName]}
        changed == volumes # old.volumes \/ mounts # old.mounts
    IN IF fileName = "" THEN [cl |-> cl, err |-> TRUE]
       ELSE [cl |-> [cl EXCEPT !.S = S1,
                               !.W[dep].volumes = volumes,
                               !.W[dep].mounts = mounts,
                               !.gen = IF changed THEN @ \cup {dep} ELSE @],
             err |-> FALSE]

\* A deployer that takes every containerExec deployment for successful.
DeployToContainerUnchecked(cl, trap, w, c, fault) ==
    IF trap.decoyStrategy = "containerExec"
    THEN [cl |-> deployDecoyWithContainerExec(cl, trap, w, c, fault).cl, err |-> FALSE]
    ELSE IF trap.decoyStrategy = "volumeMount"
         THEN deployDecoyWithVolumeMount(cl, trap, w, c)
    ELSE [cl |-> cl, err |-> TRUE]

\* [cl, err]: the trap into one container, by the trap's strategy.
DeployToContainer(cl, trap, w, c, fault) ==
    IF trap.decoyStrategy = "containerExec"
    THEN deployDecoyWithContainerExec(cl, trap, w, c, fault)
    ELSE IF trap.decoyStrategy = "volumeMount"
         THEN deployDecoyWithVolumeMount(cl, trap, w, c)
    ELSE [cl |-> cl, err |-> TRUE]

\* [cl, deployed, err]: the loop of DeployDecoy over the selected containers;
\* r is the deployment into the first of them.
RECURSIVE DeployToContainers(_, _, _, _, _, _, _, _)
DeployNext(r, trap, w, selected, already, fault, deployed, err) ==
    DeployToContainers(r.cl, trap, w, Tail(selected), already, fault,
                       IF r.err THEN deployed ELSE Append(deployed, Head(selected)),
                       err \/ r.err)

DeployToContainers(cl, trap, w, selected, already, fault, deployed, err) ==
    IF selected = <<>> THEN [cl |-> cl, deployed |-> deployed, err |-> err]
    ELSE IF Contains(already, Head(selected))
         THEN DeployToContainers(cl, trap, w, Tail(selected), already, fault,
                                 Append(deployed, Head(selected)), err)
         ELSE Bind(DeployToContainer(cl, trap, w, Head(selected), fault),
                   LAMBDA r : DeployNext(r, trap, w, selected, already, fault,
                                         deployed, err))

\* A deployer that takes no container for deployed.
NoneAlreadyDeployed(traps, trap) == <<>>

RECURSIVE AlreadyDeployed(_, _)
AlreadyDeployed(traps, trap) ==
    IF traps = <<>> THEN <<>>
    ELSE (IF AreTheSameTrap(Head(traps), trap) THEN Head(traps).containers ELSE <<>>)
         \o AlreadyDeployed(Tail(traps), trap)

\* The ledger of w is written when the trap is in at least one container.
AnnotateDeployed(r, crdName, trap, w, t) ==
    IF Len(r.deployed) > 0
    THEN [cl |-> [r.cl EXCEPT !.W[w].annotation =
                     AddTrapToAnnotations(@, crdName, trap, r.deployed, t)],
          err |-> r.err]
    ELSE [cl |-> r.cl, err |-> r.err]

\* [cl, err]: one matched resource of DeployDecoy.
DeployToResource(cl, crdName, trap, w, selected, fault, t) ==
    Bind(DeployToContainers(cl, trap, w, selected,
            AlreadyDeployed(GetAnnotationChange(cl.W[w].annotation, crdName), trap),
            fault, <<>>, FALSE),
         LAMBDA r : AnnotateDeployed(r, crdName, trap, w, t))

RECURSIVE DeployToResources(_, _, _, _, _, _, _, _)
DeployResourcesNext(r, crdName, trap, deployable, todo, fault, t, err) ==
    DeployToResources(r.cl, crdName, trap, deployable, Tail(todo), fault, t, err \/ r.err)

DeployToResources(cl, crdName, trap, deployable, todo, fault, t, err) ==
    IF todo = <<>> THEN [cl |-> cl, err |-> err]
    ELSE Bind(DeployToResource(cl, crdName, trap, Head(todo), deployable[Head(todo)],
                               fault, t),
              LAMBDA r : DeployResourcesNext(r, crdName, trap, deployable, todo,
                                             fault, t, err))

DecoyResult(m, r) ==
    [cl |-> r.cl, matched |-> m.anyMatched, allReady |-> m.allReady, err |-> r.err]

\* DeployDecoy once the matching result m is known.
DeployMatched(cl, crdName, trap, fault, t, m) ==
    IF m.err THEN [cl |-> cl, matched |-> FALSE, allReady |-> FALSE, err |-> TRUE]
    ELSE IF DOMAIN m.deployable = {}
         THEN [cl |-> cl, matched |-> m.anyMatched, allReady |-> m.allReady, err |-> FALSE]
         ELSE Bind(DeployToResources(cl, crdName, trap, m.deployable,
                      SeqFilter(WorkloadOrder, DOMAIN m.deployable), fault, t, FALSE),
                   LAMBDA r : DecoyResult(m, r))

\* [cl, matched, allReady, err]
DeployDecoy(cl, crdName, policy, trap, fault, t) ==
    Bind(GetDeployableObjectsWithContainers(cl.W, trap,
            IF ~policy.mutateExisting THEN policy.createdAt ELSE NoTime),
         LAMBDA m : DeployMatched(cl, crdName, trap, fault, t, m))

\* [T, err, missingTetragon]
DeployCaptor(T, crdName, trap, fault) ==
    LET name == GenerateTetragonTracingPolicyName(trap)
    IN IF trap.captorStrategy # "tetragon"
       THEN [T |-> T, err |-> TRUE, missingTetragon |-> FALSE]
       ELSE IF fault.tetragon
            THEN [T |-> T, err |-> TRUE, missingTetragon |-> TRUE]
            ELSE [T |-> IF \E tp \in T : tp.name = name THEN T
                        ELSE T \cup {[name |-> name, owner |-> crdName]},
                  err |-> FALSE, missingTetragon |-> FALSE]

(***************************************************************************)
(* Decoy removal.                                                          *)
(***************************************************************************)
\* [cl, err]: "rm path" fails when the file is not there; the check that
\* follows finds the file gone.
removeDecoyWithContainerExec(cl, rec, pod, c, fault) ==
    LET path == rec.filesystemHoneytoken.filePath
        present == FileAt(cl.W[pod].files, c, path)
    IN IF Hits(fault, "rm", c) \/ present = {}
       THEN [cl |-> [cl EXCEPT !.execs = Append(@, Exec(pod, c, path, "rm", FALSE))],
             err |-> TRUE]
       ELSE [cl |-> [cl EXCEPT !.W[pod].files = @ \ present,
                               !.execs = @ \o <<Exec(pod, c, path, "rm", TRUE),
                                                Exec(pod, c, path, "test", TRUE)>>],
             err |-> FALSE]

\* One call of removeDecoyWithVolumeMount.  The deployment is passed by value:
\* mem is the caller's object, whose container entries (and so its mounts)
\* the copy shares, whose volume list the copy replaces only for itself, and
\* whose resourceVersion goes stale once an update of a copy has changed the
\* stored deployment.  [cl, mem, err]
removeDecoyWithVolumeMount(cl, mem, rec, dep, c) ==
    LET volumeName == generateVolumeName(rec.filesystemHoneytoken.filePath)
        newMounts == {m \in mem.mounts : ~(m.container = c /\ m.volume = volumeName)}
        newVolumes == {v \in mem.volumes : v.name # volumeName}
        named == {v \in mem.volumes : v.name = volumeName}
        secretName == IF named = {} THEN "" ELSE (CHOOSE v \in named : TRUE).secret
        accepted == ~mem.stale /\ TemplateValid(newVolumes, newMounts)
        changed == accepted
                   /\ (newVolumes # cl.W[dep].volumes \/ newMounts # cl.W[dep].mounts)
        cl1 == IF accepted
               THEN [cl EXCEPT !.W[dep].volumes = newVolumes,
                               !.W[dep].mounts = newMounts,
                               !.gen = IF changed THEN @ \cup {dep} ELSE @]
               ELSE cl
        secret == [namespace |-> WorkloadInfo[dep].namespace, name |-> secretName]
        secretMissing == secretName # "" /\ secret \notin cl1.S
        cl2 == IF secretName # "" THEN [cl1 EXCEPT !.S = @ \ {secret}] ELSE cl1
    IN [cl |-> cl2,
        mem |-> [mem EXCEPT !.mounts = newMounts, !.stale = @ \/ changed],
        err |-> ~accepted \/ secretMissing]

WithMem(r, mem) == [cl |-> r.cl, mem |-> mem, err |-> r.err]

\* [cl, mem, err]: the trap out of one container, by the record's strategy.
RemoveFromContainer(cl, mem, rec, w, c, fault) ==
    IF rec.deploymentStrategy = "containerExec"
    THEN Bind(removeDecoyWithContainerExec(cl, rec, w, c, fault),
              LAMBDA r : WithMem(r, mem))
    ELSE removeDecoyWithVolumeMount(cl, mem, rec, w, c)

\* [cl, mem, removed, err]: the loop of RemoveDecoy over the recorded
\* containers; r is the removal from the first of them.
RECURSIVE RemoveFromContainers(_, _, _, _, _, _, _, _)
RemoveNext(r, rec, w, todo, fault, removed, err) ==
    RemoveFromContainers(r.cl, r.mem, rec, w, Tail(todo), fault,
                         IF r.err THEN removed ELSE Append(removed, Head(todo)),
                         err \/ r.err)

RemoveFromContainers(cl, mem, rec, w, todo, fault, removed, err) ==
    IF todo = <<>> THEN [cl |-> cl, mem |-> mem, removed |-> removed, err |-> err]
    ELSE Bind(RemoveFromContainer(cl, mem, rec, w, Head(todo), fault),
              LAMBDA r : RemoveNext(r, rec, w, todo, fault, removed, err))

\* The ledger of w after the loop: the record goes when every container was
\* cleaned, else it keeps the containers that were not.
AnnotateRemoved(r, crdName, rec, w, t) ==
    IF Len(r.removed) = Len(rec.containers)
    THEN [cl |-> [r.cl EXCEPT !.W[w].annotation = RemoveTrapAnnotations(@, crdName, rec)],
          err |-> r.err]
    ELSE [cl |-> [r.cl EXCEPT !.W[w].annotation =
                     UpdateContainersInAnnotations(@, crdName, rec,
                         SeqFilter(rec.containers,
                                   Range(rec.containers) \ Range(r.removed)), t)],
          err |-> r.err]

\* [cl, err]
RemoveDecoy(cl, crdName, rec, w, fault, t) ==
    IF rec.deploymentStrategy \notin {"containerExec", "volumeMount"}
    THEN [cl |-> cl, err |-> TRUE]
    ELSE Bind(RemoveFromContainers(cl,
                [mounts |-> cl.W[w].mounts, volumes |-> cl.W[w].volumes, stale |-> FALSE],
                rec, w, rec.containers, fault, <<>>, FALSE),
              LAMBDA r : AnnotateRemoved(r, crdName, rec, w, t))

cleanupTrap(cl, crdName, rec, w, fault, t) ==
    IF AnnotationTrapType(rec) = "FilesystemHoneytoken"
    THEN RemoveDecoy(cl, crdName, rec, w, fault, t)
    ELSE [cl |-> cl, err |-> FALSE]

GetAnnotatedResources(W, crdName) ==
    SeqFilter(WorkloadOrder,
              {w \in WorkloadIds :
                  W[w].exists /\ Len(GetAnnotationChange(W[w].annotation, crdName)) > 0})

\* A record is cleaned when no declared trap is the same trap; the deletion
\* path passes no declared traps, so every record is.
Surplus(rec, declared) ==
    ~\E i \in DOMAIN declared : AreTheSameTrap(rec, declared[i])

\* [cl, err]: the records of one resource, stopping at the first error.
RECURSIVE CleanupRecords(_, _, _, _, _, _, _)
CleanupRecordsNext(r, crdName, w, recs, declared, fault, t) ==
    IF r.err THEN r
    ELSE CleanupRecords(r.cl, crdName, w, Tail(recs), declared, fault, t)

CleanupRecords(cl, crdName, w, recs, declared, fault, t) ==
    IF recs = <<>> THEN [cl |-> cl, err |-> FALSE]
    ELSE Bind(IF Surplus(Head(recs), declared)
              THEN cleanupTrap(cl, crdName, Head(recs), w, fault, t)
              ELSE [cl |-> cl, err |-> FALSE],
              LAMBDA r : CleanupRecordsNext(r, crdName, w, recs, declared, fault, t))

RECURSIVE CleanupResources(_, _, _, _, _, _)
CleanupResourcesNext(r, crdName, resources, declared, fault, t) ==
    IF r.err THEN r
    ELSE CleanupResources(r.cl, crdName, Tail(resources), declared, fault, t)

CleanupResources(cl, crdName, resources, declared, fault, t) ==
    IF resources = <<>> THEN [cl |-> cl, err |-> FALSE]
    ELSE Bind(CleanupRecords(cl, crdName, Head(resources),
                             GetAnnotationChange(cl.W[Head(resources)].annotation, crdName),
                             declared, fault, t),
              LAMBDA r : CleanupResourcesNext(r, crdName, resources, declared, fault, t))

cleanupDeceptionPolicy(cl, crdName, fault, t) ==
    CleanupResources(cl, crdName, GetAnnotatedResources(cl.W, crdName), <<>>, fault, t)

cleanupRemovedDecoys(cl, crdName, policy, fault, t) ==
    CleanupResources(cl, crdName, GetAnnotatedResources(cl.W, crdName),
                     policy.traps, fault, t)

\* Without the tracing-policy kind the listing fails and nothing is deleted.
cleanupRemovedCaptors(cl, crdName, policy, fault) ==
    LET names == {GenerateTetragonTracingPolicyName(policy.traps[i]) : i \in DOMAIN policy.traps}
    IN IF fault.tetragon THEN cl
       ELSE [cl EXCEPT !.T = {tp \in @ : ~(tp.owner = crdName /\ tp.name \notin names)}]

cleanupRemovedTraps(cl, crdName, policy, fault, t) ==
    Bind(cleanupRemovedCaptors(cl, crdName, policy, fault),
         LAMBDA c : cleanupRemovedDecoys(c, crdName, policy, fault, t))

(***************************************************************************)
(* Status conditions.                                                      *)
(***************************************************************************)
CondTypes == {"ResourceFound", "PolicyValid", "DecoysDeployed", "CaptorsDeployed"}

NoCondition == [status |-> "", reason |-> "", message |-> "", lastTransitionTime |-> NoTime]

Condition(status, reason, message) ==
    [status |-> status, reason |-> reason, message |-> message, lastTransitionTime |-> NoTime]

ConditionEquals(a, b) ==
    a.status = b.status /\ a.reason = b.reason /\ a.message = b.message

\* A variant that stores the condition, with the time of the call, whatever
\* is stored already.
PutConditionAlways(existing, c, t) == [c EXCEPT !.lastTransitionTime = t]

\* What PutCondition returns: whether the conditions were modified.
PutConditionModified(existing, c) ==
    existing = NoCondition \/ ~ConditionEquals(c, existing)

\* The stored condition after PutCondition(c) at time t.
PutCondition(existing, c, t) ==
    IF existing = NoCondition \/ ~ConditionEquals(c, existing)
    THEN [c EXCEPT !.lastTransitionTime = t]
    ELSE existing

updateStatusConditions(conds, staged, t) ==
    [ty \in CondTypes |-> PutCondition(conds[ty], staged[ty], t)]

DecoyDeployedStatusConditions ==
    [objectName |-> "decoys", success |-> "DecoyDeploymentSucceeded",
     partialSuccess |-> "DecoyDeploymentSucceededPartially",
     error |-> "DecoyDeploymentError", noObjects |-> "NoObjectsMatched"]

CaptorDeployedStatusConditions ==
    [objectName |-> "captors", success |-> "CaptorDeploymentSucceeded",
     partialSuccess |-> "CaptorDeploymentSucceededPartially",
     error |-> "CaptorDeploymentError", noObjects |-> "NoObjectsMatched"]

\* A TrapReconcileResult; errors is the Errors field, which no code sets.
EmptyResult(numTraps) ==
    [numTraps |-> numTraps, numSuccesses |-> 0, numFailures |-> 0, shouldRequeue |-> FALSE,
     overrideReason |-> "", overrideMessage |-> "", errors |-> FALSE]

NumTries(r) == r.numSuccesses + r.numFailures

NumSkipped(r) == r.numTraps - r.numSuccesses - r.numFailures

DeployedMessage(r, fields) ==
    ToString(r.numSuccesses) \o "/" \o ToString(NumTries(r)) \o " " \o fields.objectName
        \o " deployed (" \o ToString(NumSkipped(r)) \o " skipped)"

BaseCondition(r, cond, fields) ==
    IF r.numFailures > 0 \/ r.errors
        THEN Condition("False", fields.error, DeployedMessage(r, fields))
    ELSE IF NumTries(r) = 0
        THEN Condition("False", fields.noObjects, "No objects matching selection criteria")
    ELSE IF r.numSuccesses = r.numTraps
        THEN Condition("True", fields.success, DeployedMessage(r, fields))
    ELSE IF r.numSuccesses = NumTries(r)
        THEN Condition("True", fields.partialSuccess, DeployedMessage(r, fields))
    ELSE [cond EXCEPT !.message = DeployedMessage(r, fields)]

translateReconcileResultToStatusCondition(r, cond, fields) ==
    IF r.numTraps > 0
    THEN [BaseCondition(r, cond, fields) EXCEPT
            !.reason = IF r.overrideReason # "" THEN r.overrideReason ELSE @,
            !.message = IF r.overrideMessage # "" THEN r.overrideMessage ELSE @]
    ELSE cond

PolicyValidCondition(numTraps, numValid) ==
    IF numTraps = 0 THEN Condition("Unknown", "ValidationPending", "")
    ELSE IF numTraps - numValid > 0
         THEN Condition("False", "TrapsSpecInvalid",
                        ToString(numValid) \o "/" \o ToString(numTraps) \o " traps are valid")
         ELSE Condition("True", "TrapsSpecValid",
                        ToString(numValid) \o "/" \o ToString(numTraps) \o " traps are valid")

\* The conditions Reconcile stages before it does any work.
StagedConditions ==
    [ty \in CondTypes |->
        CASE ty = "ResourceFound" ->
                Condition("True", "ResourceFound", "DeceptionPolicy found and ready")
          [] ty = "PolicyValid" -> Condition("Unknown", "ValidationPending", "")
          [] ty = "DecoysDeployed" -> Condition("Unknown", "DecoyDeploymentPending", "")
          [] ty = "CaptorsDeployed" -> Condition("Unknown", "CaptorDeploymentPending", "")]

(***************************************************************************)
(* reconcileDecoys and reconcileCaptors: deploy every valid trap, then     *)
(* summarise.  seen says whether any deployment reported an error.         *)
(***************************************************************************)
filterValidTraps(traps) == SeqFilter(traps, {tr \in Range(traps) : IsValid(tr)})

DecoyImpliesSuccess(d) == d.matched /\ d.allReady /\ ~d.err

DecoyImpliesFailure(d) == d.err

DecoyImpliesRetry(d) == d.matched /\ ~d.allReady /\ ~d.err

\* The summary loop's step for one DecoyDeploymentResult d.
CountDecoy(result, d) ==
    [result EXCEPT
        !.numFailures = IF DecoyImpliesFailure(d) THEN @ + 1 ELSE @,
        !.numSuccesses = IF ~DecoyImpliesFailure(d) /\ DecoyImpliesSuccess(d)
                         THEN @ + 1 ELSE @,
        !.shouldRequeue = @ \/ DecoyImpliesRetry(d)]

\* [cl, result, seen]
RECURSIVE reconcileDecoys(_, _, _, _, _, _, _, _)
ReconcileDecoysNext(d, crdName, policy, traps, fault, t, result, seen) ==
    Bind(CountDecoy(result, d),
         LAMBDA next : reconcileDecoys(d.cl, crdName, policy, Tail(traps), fault, t,
                                       next, seen \/ d.err))

reconcileDecoys(cl, crdName, policy, traps, fault, t, result, seen) ==
    IF traps = <<>> THEN [cl |-> cl, result |-> result, seen |-> seen]
    ELSE Bind(DeployDecoy(cl, crdName, policy, Head(traps), fault, t),
              LAMBDA d : ReconcileDecoysNext(d, crdName, policy, traps, fault, t,
                                             result, seen))

CaptorImpliesFailure(c) == c.err \/ c.missingTetragon

CaptorImpliesSuccess(c) == ~c.err

\* A summary loop that does not override the reason of the condition.
CountCaptorWithoutOverride(result, c) ==
    [result EXCEPT
        !.numFailures = IF CaptorImpliesFailure(c) THEN @ + 1 ELSE @,
        !.numSuccesses = IF ~CaptorImpliesFailure(c) /\ CaptorImpliesSuccess(c)
                         THEN @ + 1 ELSE @]

\* The summary loop's step for one CaptorDeploymentResult c.
CountCaptor(result, c) ==
    [result EXCEPT
        !.numFailures = IF CaptorImpliesFailure(c) THEN @ + 1 ELSE @,
        !.numSuccesses = IF ~CaptorImpliesFailure(c) /\ CaptorImpliesSuccess(c)
                         THEN @ + 1 ELSE @,
        !.overrideReason = IF c.missingTetragon THEN "TetragonNotInstalled" ELSE @,
        !.overrideMessage = IF c.missingTetragon
                            THEN "Cannot deploy captors without Tetragon" ELSE @]

\* [cl, result, seen]
RECURSIVE reconcileCaptors(_, _, _, _, _, _)
ReconcileCaptorsNext(c, cl, crdName, traps, fault, result, seen) ==
    Bind(CountCaptor(result, c),
         LAMBDA next : reconcileCaptors([cl EXCEPT !.T = c.T], crdName, Tail(traps),
                                        fault, next, seen \/ c.err))

reconcileCaptors(cl, crdName, traps, fault, result, seen) ==
    IF traps = <<>> THEN [cl |-> cl, result |-> result, seen |-> seen]
    ELSE Bind(DeployCaptor(cl.T, crdName, Head(traps), fault),
              LAMBDA c : ReconcileCaptorsNext(c, cl, crdName, traps, fault, result, seen))

(***************************************************************************)
(* DeceptionPolicy objects.  siblings says whether the stored spec is in   *)
(* the form the controller's client writes: Trap's struct-valued fields    *)
(* are marshalled even when empty, so an update by the controller adds the *)
(* empty sibling objects to every trap of a spec that was applied without  *)
(* them, which changes the spec and moves metadata.generation.             *)
(***************************************************************************)
AbsentPolicy ==
    [exists |-> FALSE, finalizer |-> FALSE, deleting |-> FALSE, createdAt |-> 0,
     traps |-> <<>>, strictValidation |-> TRUE, mutateExisting |-> TRUE,
     siblings |-> TRUE, conds |-> [ty \in CondTypes |-> NoCondition]]

PolicySpec(traps, strictValidation, mutateExisting) ==
    [traps |-> traps, strictValidation |-> strictValidation,
     mutateExisting |-> mutateExisting]

\* What a client may submit for each policy name.
PolicySpecs(p) ==
    IF p = "p1"
    THEN {PolicySpec(<<ExecTrap>>, TRUE, TRUE),
          PolicySpec(<<VolumeTrap>>, TRUE, TRUE),
          PolicySpec(<<ExecTrap, VolumeTrap>>, TRUE, FALSE),
          PolicySpec(<<ExecTrap, RelativeTrap>>, TRUE, TRUE),
          PolicySpec(<<ExecTrap, RelativeTrap>>, FALSE, TRUE)}
    ELSE {PolicySpec(<<ExecTrap>>, TRUE, TRUE)}

MarshalChangesSpec(policy) == Len(policy.traps) > 0 /\ ~policy.siblings

(***************************************************************************)
(* The event filter of SetupWithManager and the watch fan-out.             *)
(***************************************************************************)
CreateFunc(kind) == TRUE

UpdateFunc(kind, generationChanged, labelsChanged) ==
    CASE kind = "Pod" -> FALSE
      [] kind = "Deployment" -> generationChanged \/ labelsChanged
      [] kind = "DeceptionPolicy" -> generationChanged
      [] OTHER -> FALSE

DeleteFunc(kind) ==
    CASE kind = "Pod" -> FALSE
      [] kind = "Deployment" -> FALSE
      [] kind = "DeceptionPolicy" -> TRUE
      [] OTHER -> FALSE

listAllDeceptionPolicies(P) == {p \in PolicyNames : P[p].exists}

HandleWatchEvent(P, objDeleting) ==
    IF objDeleting THEN {} ELSE listAllDeceptionPolicies(P)

\* Requests caused by the updates of the deployments in changed, each of
\* which moved the deployment's generation.
RequestsForUpdates(P, W, changed) ==
    UNION {IF UpdateFunc(WorkloadInfo[w].kind, TRUE, FALSE)
           THEN HandleWatchEvent(P, W[w].deleting) ELSE {} : w \in changed}

(***************************************************************************)
(* Reconcile.  The outcome of one pass is                                  *)
(* [policy, cl, stage, requeueAfter, err, seen, event]: the policy object  *)
(* as stored afterwards, the cluster, where the pass ended, the returned   *)
(* RequeueAfter and error, whether a deployment reported an error, and     *)
(* whether the pass's write to the policy passes the event filter.         *)
(***************************************************************************)
Outcome(policy, cl, stage, requeueAfter, err, seen, event) ==
    [policy |-> policy, cl |-> cl, stage |-> stage, requeueAfter |-> requeueAfter,
     err |-> err, seen |-> seen, event |-> event]

\* A variant that removes the finalizer whatever the clean-up returned.
FinalizeDespiteError(r, crdName, policy) ==
    Outcome(AbsentPolicy,
            [r.cl EXCEPT !.T = {tp \in @ : tp.owner # crdName}],
            "finalized", 0, FALSE, FALSE, DeleteFunc("DeceptionPolicy"))

\* The deletion path once the clean-up r has run.  Without its finalizer the
\* object is gone, and with it the tracing policies it owns.
Finalize(r, crdName, policy) ==
    IF r.err
    THEN Outcome(policy, r.cl, "cleanupError", 0, TRUE, FALSE, FALSE)
    ELSE Outcome(AbsentPolicy,
                 [r.cl EXCEPT !.T = {tp \in @ : tp.owner # crdName}],
                 "finalized", 0, FALSE, FALSE, DeleteFunc("DeceptionPolicy"))

runFinalizerIfMarkedForDeletion(cl, crdName, policy, fault, t) ==
    IF ~policy.finalizer
    THEN Outcome(policy, cl, "deleting", 0, FALSE, FALSE, FALSE)
    ELSE Bind(cleanupDeceptionPolicy(cl, crdName, fault, t),
              LAMBDA r : Finalize(r, crdName, policy))

putFinalizer(cl, policy) ==
    Outcome([policy EXCEPT !.finalizer = TRUE, !.siblings = TRUE], cl, "finalizer",
            0, FALSE, FALSE,
            UpdateFunc("DeceptionPolicy", MarshalChangesSpec(policy), FALSE))

\* A variant that forgets the short interval.
RequeueAfterIgnoringRetry(decoyResult, captorResult) ==
    IF decoyResult.errors \/ captorResult.errors THEN NormalFailureRetryInterval ELSE 0

\* The RequeueAfter of a pass that reached the end of Reconcile.
RequeueAfterOf(decoyResult, captorResult) ==
    IF decoyResult.errors \/ captorResult.errors THEN NormalFailureRetryInterval
    ELSE IF decoyResult.shouldRequeue \/ captorResult.shouldRequeue
         THEN ShortStatusCheckInterval
    ELSE 0

\* The end of Reconcile, d and c being what reconcileDecoys and
\* reconcileCaptors returned.
Summarise(policy, valid, d, c, t) ==
    Outcome([policy EXCEPT !.conds = updateStatusConditions(@,
                [StagedConditions EXCEPT
                    !["PolicyValid"] = valid,
                    !["DecoysDeployed"] = translateReconcileResultToStatusCondition(
                                             d.result, @, DecoyDeployedStatusConditions),
                    !["CaptorsDeployed"] = translateReconcileResultToStatusCondition(
                                             c.result, @, CaptorDeployedStatusConditions)],
                t)],
            c.cl, "deployed", RequeueAfterOf(d.result, c.result), FALSE,
            d.seen \/ c.seen, FALSE)

DeployCaptors(policy, validTraps, valid, d, crdName, fault, t) ==
    Bind(reconcileCaptors(d.cl, crdName, validTraps, fault,
                          EmptyResult(Len(validTraps)), FALSE),
         LAMBDA c : Summarise(policy, valid, d, c, t))

\* A variant that goes on with the valid traps even under strictValidation.
DeployValidLenient(cl, crdName, policy, validTraps, valid, fault, t) ==
    Bind(reconcileDecoys(cl, crdName, policy, validTraps, fault, t,
                         EmptyResult(Len(validTraps)), FALSE),
         LAMBDA d : DeployCaptors(policy, validTraps, valid, d, crdName, fault, t))

\* Reconcile from filterValidTraps on.
DeployValid(cl, crdName, policy, validTraps, valid, fault, t) ==
    IF Len(policy.traps) - Len(validTraps) > 0 /\ policy.strictValidation
    THEN Outcome([policy EXCEPT !.conds = updateStatusConditions(
                     @, [StagedConditions EXCEPT !["PolicyValid"] = valid], t)],
                 cl, "strictStop", 0, FALSE, FALSE, FALSE)
    ELSE Bind(reconcileDecoys(cl, crdName, policy, validTraps, fault, t,
                              EmptyResult(Len(validTraps)), FALSE),
              LAMBDA d : DeployCaptors(policy, validTraps, valid, d, crdName, fault, t))

DeployStage(cl, crdName, policy, fault, t) ==
    Bind(filterValidTraps(policy.traps),
         LAMBDA validTraps :
            DeployValid(cl, crdName, policy, validTraps,
                        PolicyValidCondition(Len(policy.traps), Len(validTraps)),
                        fault, t))

\* Reconcile once cleanupRemovedTraps has returned removal.
AfterRemoval(removal, crdName, policy, fault, t) ==
    IF removal.err
    THEN Outcome([policy EXCEPT !.conds = updateStatusConditions(@, StagedConditions, t)],
                 removal.cl, "removalError", 0, TRUE, FALSE, FALSE)
    ELSE DeployStage(removal.cl, crdName, policy, fault, t)

ReconcileOutcome(cl, crdName, policy, fault, t) ==
    IF ~policy.exists THEN Outcome(policy, cl, "notfound", 0, FALSE, FALSE, FALSE)
    ELSE IF policy.deleting
         THEN runFinalizerIfMarkedForDeletion(cl, crdName, policy, fault, t)
    ELSE IF ~policy.finalizer THEN putFinalizer(cl, policy)
    ELSE Bind(cleanupRemovedTraps(cl, crdName, policy, fault, t),
              LAMBDA removal : AfterRemoval(removal, crdName, policy, fault, t))

(***************************************************************************)
(* The state machine.                                                      *)
(***************************************************************************)
\* What the latest step was.  turn tells a pass from the pass before it: it
\* flips with every pass that follows a pass.
\* execs is the log of the exec calls the step made.
Observation(op, policy, stage, requeueAfter, err, seen, fault, turn, execs) ==
    [op |-> op, policy |-> policy, stage |-> stage, requeueAfter |-> requeueAfter,
     err |-> err, seen |-> seen, fault |-> fault, turn |-> turn, execs |-> execs,
     expected |-> {}, args |-> <<>>]

Event(op, subject) == Observation(op, subject, "", 0, FALSE, FALSE, NoFault, FALSE, <<>>)

LabelSets == {{}, {HoneytokenLabel}}

\* Readiness as the environment sets it: every container ready, or every
\* container but the first.
ReadySets(w) ==
    {Range(WorkloadInfo[w].containers), Range(Tail(WorkloadInfo[w].containers))}

\* The clients whose API calls interleave, and a client that is in no call.
Clients == {"c1", "c2"}

NoRead == [rv |-> 0, volumes |-> {}, mounts |-> {}, annotation |-> NoAnnotation]

NoCall == [kind |-> "none", pc |-> "idle", container |-> "", read |-> NoRead,
           tries |-> 0, touched |-> 0, result |-> ""]

\* The controller starts in a cluster without policies that runs a labelled
\* pod, whose first container may still be starting, and a deployment; a
\* second pod is yet to be created.
InitWith(events) ==
    /\ policies = [p \in PolicyNames |-> AbsentPolicy]
    /\ \E ready \in ReadySets("pod1") :
          workloads = [w \in WorkloadIds |->
                         IF w = "pod1"
                         THEN [WorkloadAt(w, 0, {HoneytokenLabel}) EXCEPT !.ready = ready]
                         ELSE IF w = "dep1" THEN WorkloadAt(w, 0, {})
                         ELSE AbsentWorkload]
    /\ secrets = {}
    /\ tracingPolicies = {}
    /\ queue = {}
    /\ timer = [p \in PolicyNames |-> "none"]
    /\ now = 0
    /\ budget = events
    /\ last = Event("Init", "")
    /\ resourceVersion = [w \in WorkloadIds |-> 0]
    /\ calls = [c \in Clients |-> NoCall]

Init == InitWith(MaxEvents)

\* The requests in the queue after a pass for p with outcome out: a returned
\* error re-adds the request, and the events of the pass's own writes are
\* filtered and fanned out.
QueueAfter(p, out) ==
    (queue \ {p})
        \cup (IF out.err \/ out.event THEN {p} ELSE {})
        \cup RequestsForUpdates([policies EXCEPT ![p] = out.policy], out.cl.W, out.cl.gen)

\* RequeueAfter arms the timer of p.
TimerAfter(p, out) ==
    [timer EXCEPT ![p] =
        IF out.requeueAfter = NormalFailureRetryInterval THEN "long"
        ELSE IF out.requeueAfter = ShortStatusCheckInterval THEN "short"
        ELSE @]

Commit(p, fault, out) ==
    /\ policies' = [policies EXCEPT ![p] = out.policy]
    /\ workloads' = out.cl.W
    /\ secrets' = out.cl.S
    /\ tracingPolicies' = out.cl.T
    /\ queue' = QueueAfter(p, out)
    /\ timer' = TimerAfter(p, out)
    /\ last' = [Observation("Reconcile", p, out.stage, out.requeueAfter,
                            out.err, out.seen, fault,
                            last.op = "Reconcile" /\ ~last.turn, out.cl.execs)
                   EXCEPT !.expected = last.expected]

\* One pass of Reconcile for the request p, under the fault the environment
\* injects into it.
ReconcileUnder(p, fault) ==
    /\ p \in queue
    /\ \E out \in {ReconcileOutcome([W |-> workloads, S |-> secrets,
                                       T |-> tracingPolicies, gen |-> {},
                                       execs |-> <<>>],
                                      p, policies[p], fault, now)} :
          Commit(p, fault, out)
    /\ UNCHANGED <<now, budget, resourceVersion, calls>>

Reconcile(p) == \E fault \in Faults : ReconcileUnder(p, fault)

ReconcileQuiet(p) == ReconcileUnder(p, NoFault)

\* A RequeueAfter delay elapses.
TimerFire(p) ==
    /\ timer[p] # "none"
    /\ timer' = [timer EXCEPT ![p] = "none"]
    /\ queue' = queue \cup {p}
    /\ last' = Event("TimerFire", p)
    /\ UNCHANGED <<policies, workloads, secrets, tracingPolicies, now, budget, resourceVersion, calls>>

Tick ==
    /\ now < MaxTime
    /\ now' = now + 1
    /\ last' = Event("Tick", "")
    /\ UNCHANGED <<policies, workloads, secrets, tracingPolicies, queue, timer, budget, resourceVersion, calls>>

\* A client creates policy p; typed says the client is a Go client of the
\* API types, which writes the spec in the controller's own form.
CreatePolicy(p, spec, typed) ==
    /\ budget > 0
    /\ ~policies[p].exists
    /\ policies' = [policies EXCEPT ![p] =
                      [AbsentPolicy EXCEPT !.exists = TRUE, !.createdAt = now,
                                           !.traps = spec.traps,
                                           !.strictValidation = spec.strictValidation,
                                           !.mutateExisting = spec.mutateExisting,
                                           !.siblings = typed \/ spec.traps = <<>>]]
    /\ queue' = queue \cup (IF CreateFunc("DeceptionPolicy") THEN {p} ELSE {})
    /\ budget' = budget - 1
    /\ last' = Event("CreatePolicy", p)
    /\ UNCHANGED <<workloads, secrets, tracingPolicies, timer, now, resourceVersion, calls>>

\* A user applies a new trap list to policy p.
EditPolicy(p, traps) ==
    /\ budget > 0
    /\ policies[p].exists /\ ~policies[p].deleting
    /\ traps # policies[p].traps
    /\ policies' = [policies EXCEPT ![p].traps = traps, ![p].siblings = (traps = <<>>)]
    /\ queue' = queue \cup (IF UpdateFunc("DeceptionPolicy", TRUE, FALSE) THEN {p} ELSE {})
    /\ budget' = budget - 1
    /\ last' = Event("EditPolicy", p)
    /\ UNCHANGED <<workloads, secrets, tracingPolicies, timer, now, resourceVersion, calls>>

\* A user deletes policy p: with a finalizer the object stays, marked for
\* deletion (which moves its generation); without one it is gone at once.
DeletePolicy(p) ==
    /\ budget > 0
    /\ policies[p].exists /\ ~policies[p].deleting
    /\ IF policies[p].finalizer
       THEN /\ policies' = [policies EXCEPT ![p].deleting = TRUE]
            /\ queue' = queue \cup
                  (IF UpdateFunc("DeceptionPolicy", TRUE, FALSE) THEN {p} ELSE {})
            /\ UNCHANGED tracingPolicies
       ELSE /\ policies' = [policies EXCEPT ![p] = AbsentPolicy]
            /\ queue' = queue \cup (IF DeleteFunc("DeceptionPolicy") THEN {p} ELSE {})
            /\ tracingPolicies' = {tp \in tracingPolicies : tp.owner # p}
    /\ budget' = budget - 1
    /\ last' = Event("DeletePolicy", p)
    /\ UNCHANGED <<workloads, secrets, timer, now, resourceVersion, calls>>

\* Requests caused by an event on workload w that the filter let through.
WorkloadRequests(passes, w, W) ==
    IF passes THEN HandleWatchEvent(policies, W[w].deleting) ELSE {}

\* A workload appears, every container ready.
CreateWorkload(w, labels) ==
    /\ budget > 0
    /\ ~workloads[w].exists
    /\ workloads' = [workloads EXCEPT ![w] = WorkloadAt(w, now, labels)]
    /\ queue' = queue \cup WorkloadRequests(CreateFunc(WorkloadInfo[w].kind), w, workloads')
    /\ budget' = budget - 1
    /\ last' = Event("CreateWorkload", w)
    /\ UNCHANGED <<policies, secrets, tracingPolicies, timer, now, resourceVersion, calls>>

\* A user deletes workload w: it is marked for deletion first.
DeleteWorkload(w) ==
    /\ budget > 0
    /\ workloads[w].exists /\ ~workloads[w].deleting
    /\ workloads' = [workloads EXCEPT ![w].deleting = TRUE]
    /\ queue' = queue \cup
          WorkloadRequests(UpdateFunc(WorkloadInfo[w].kind, TRUE, FALSE), w, workloads')
    /\ budget' = budget - 1
    /\ last' = Event("DeleteWorkload", w)
    /\ UNCHANGED <<policies, secrets, tracingPolicies, timer, now, resourceVersion, calls>>

\* A workload marked for deletion is gone.
RemoveWorkload(w) ==
    /\ workloads[w].exists /\ workloads[w].deleting
    /\ workloads' = [workloads EXCEPT ![w] = AbsentWorkload]
    /\ queue' = queue \cup WorkloadRequests(DeleteFunc(WorkloadInfo[w].kind), w, workloads)
    /\ last' = Event("RemoveWorkload", w)
    /\ UNCHANGED <<policies, secrets, tracingPolicies, timer, now, budget, resourceVersion, calls>>

\* The labels of workload w change.
ChangeLabels(w, labels) ==
    /\ budget > 0
    /\ workloads[w].exists /\ ~workloads[w].deleting
    /\ labels # workloads[w].labels
    /\ workloads' = [workloads EXCEPT ![w].labels = labels]
    /\ queue' = queue \cup
          WorkloadRequests(UpdateFunc(WorkloadInfo[w].kind, FALSE, TRUE), w, workloads')
    /\ budget' = budget - 1
    /\ last' = Event("ChangeLabels", w)
    /\ UNCHANGED <<policies, secrets, tracingPolicies, timer, now, resourceVersion, calls>>

\* The readiness of the containers of workload w changes (a status update).
ChangeReadiness(w, ready) ==
    /\ budget > 0
    /\ workloads[w].exists /\ ~workloads[w].deleting
    /\ ready # workloads[w].ready
    /\ workloads' = [workloads EXCEPT ![w].ready = ready]
    /\ queue' = queue \cup
          WorkloadRequests(UpdateFunc(WorkloadInfo[w].kind, FALSE, FALSE), w, workloads')
    /\ budget' = budget - 1
    /\ last' = Event("ChangeReadiness", w)
    /\ UNCHANGED <<policies, secrets, tracingPolicies, timer, now, resourceVersion, calls>>

PolicyEvents ==
    \/ \E p \in PolicyNames : \E spec \in PolicySpecs(p) : \E typed \in BOOLEAN :
          CreatePolicy(p, spec, typed)
    \/ \E traps \in TrapLists : EditPolicy("p1", traps)
    \/ \E p \in PolicyNames : DeletePolicy(p)

\* The workloads the environment creates, changes and deletes.
ChurnWorkloads == {"pod1", "dep1"}

WorkloadEvents ==
    \/ \E w \in ChurnWorkloads : \E labels \in LabelSets : CreateWorkload(w, labels)
    \/ \E w \in ChurnWorkloads : DeleteWorkload(w)
    \/ \E w \in ChurnWorkloads : RemoveWorkload(w)
    \/ \E w \in ChurnWorkloads : \E labels \in LabelSets : ChangeLabels(w, labels)
    \/ \E w \in ChurnWorkloads : \E ready \in ReadySets(w) : ChangeReadiness(w, ready)
    \/ Tick

\* The controller under policy events, every pass open to a fault.
Next ==
    \/ \E p \in PolicyNames : Reconcile(p)
    \/ \E p \in PolicyNames : TimerFire(p)
    \/ PolicyEvents

Spec == Init /\ [][Next]_vars

\* The controller with one policy under workload events.
ChurnNext ==
    \/ Reconcile("p1")
    \/ TimerFire("p1")
    \/ \E spec \in PolicySpecs("p1") : \E typed \in BOOLEAN : CreatePolicy("p1", spec, typed)
    \/ WorkloadEvents

ChurnSpec == Init /\ [][ChurnNext]_vars

\* The controller left to itself: no call fails, clients create policies with
\* one containerExec trap and delete them, and the work queue hands every
\* request it holds to a worker and fires every timer it has armed.
LiveInit == InitWith(MaxLiveEvents)

LiveNext ==
    \/ \E p \in PolicyNames : ReconcileQuiet(p)
    \/ \E p \in PolicyNames : TimerFire(p)
    \/ \E p \in PolicyNames : \E typed \in BOOLEAN :
          CreatePolicy(p, PolicySpec(<<ExecTrap>>, TRUE, TRUE), typed)
    \/ \E p \in PolicyNames : DeletePolicy(p)

Fairness ==
    \A p \in PolicyNames : WF_vars(ReconcileQuiet(p)) /\ WF_vars(TimerFire(p))

LiveSpec == LiveInit /\ [][LiveNext]_vars /\ Fairness

(***************************************************************************)
(* The ledger operations of package annotations on their own: Add,         *)
(* UpdateContainers and Remove applied in any order to the annotation of   *)
(* one workload that starts without it, for the policies and for traps of  *)
(* the one implemented type, at times that do not go back.                 *)
(***************************************************************************)
MaxLedgerOps == 3

LedgerTarget == "pod1"

LedgerTraps ==
    {ExecTrap, RelativeTrap,
     [ExecTrap EXCEPT !.filesystemHoneytoken.fileContent = <<"othertoken">>]}

ContainerLists ==
    {<<"nginx">>, <<"sidecar">>, WorkloadInfo[LedgerTarget].containers}

\* The annotation of the workload becomes a; the call is remembered, and
\* (turn) whether it repeats the call before it.
LedgerOp(op, crdName, trap, containers, t, a) ==
    /\ budget > 0
    /\ workloads' = [workloads EXCEPT ![LedgerTarget].annotation = a]
    /\ now' = t
    /\ budget' = budget - 1
    /\ last' = [Event(op, crdName) EXCEPT
                   !.args = <<trap, containers>>,
                   !.turn = (last.op = op /\ last.policy = crdName
                                /\ last.args = <<trap, containers>>)]
    /\ UNCHANGED <<policies, secrets, tracingPolicies, queue, timer, resourceVersion, calls>>

Add(crdName, trap, containers, t) ==
    LedgerOp("Add", crdName, trap, containers, t,
             AddTrapToAnnotations(workloads[LedgerTarget].annotation, crdName, trap,
                                  containers, t))

\* The record handed in is one read from a ledger before: the trap as Add
\* records it, with some container list.
UpdateContainers(crdName, trap, listed, containers, t) ==
    LedgerOp("UpdateContainers", crdName, trap, containers, t,
             UpdateContainersInAnnotations(workloads[LedgerTarget].annotation, crdName,
                 convertTrapToTrapAnnotation(trap, listed, now), containers, t))

Remove(crdName, trap, containers) ==
    LedgerOp("Remove", crdName, trap, containers, now,
             RemoveTrapAnnotations(workloads[LedgerTarget].annotation, crdName,
                 convertTrapToTrapAnnotation(trap, containers, now)))

LedgerInit == InitWith(MaxLedgerOps)

LedgerNext ==
    \/ \E crdName \in PolicyNames : \E trap \in LedgerTraps :
          \E containers \in ContainerLists : \E t \in now..MaxTime :
             Add(crdName, trap, containers, t)
    \/ \E crdName \in PolicyNames : \E trap \in LedgerTraps :
          \E containers, listed \in ContainerLists : \E t \in now..MaxTime :
             UpdateContainers(crdName, trap, listed, containers, t)
    \/ \E crdName \in PolicyNames : \E trap \in LedgerTraps :
          \E containers \in ContainerLists :
             Remove(crdName, trap, containers)

LedgerSpec == LedgerInit /\ [][LedgerNext]_vars

(***************************************************************************)
(* Cancellation.  When the context of a pass is cancelled (shutdown,       *)
(* deadline) every later call of the pass fails: what the pass has done in *)
(* the containers and in the pod template stays, the ledger write that     *)
(* would follow does not happen, neither does the status update, and the   *)
(* request runs again.  last.expected keeps, for the passes that follow,   *)
(* what the pass would have left had it not been cancelled.                *)
(***************************************************************************)
\* Ledger and decoys of policy p: the containers its records list, the
\* files, volumes and mounts in the workloads, and its finalizer.
Digest(W, P, p) ==
    [policy |-> p,
     recorded |-> UNION {{<<w, c>> : c \in {c \in Range(WorkloadInfo[w].containers) :
                                /\ W[w].exists
                                /\ \E rec \in Range(GetAnnotationChange(W[w].annotation, p)) :
                                      Contains(rec.containers, c)}} :
                         w \in WorkloadIds},
     decoys |-> {<<w, W[w].files, W[w].volumes, W[w].mounts>> : w \in WorkloadIds},
     finalizer |-> P[p].exists /\ P[p].finalizer]

\* What the uninterrupted pass for p would leave.
Uninterrupted(p) ==
    Bind(ReconcileOutcome([W |-> workloads, S |-> secrets, T |-> tracingPolicies,
                           gen |-> {}, execs |-> <<>>],
                          p, policies[p], NoFault, now),
         LAMBDA out : Digest(out.cl.W, [policies EXCEPT ![p] = out.policy], p))

Cancelled(p, W, S) ==
    /\ workloads' = W
    /\ secrets' = S
    /\ last' = [Event("Cancelled", p) EXCEPT !.err = TRUE,
                                             !.expected = {Uninterrupted(p)}]
    /\ budget' = budget - 1
    /\ UNCHANGED <<policies, tracingPolicies, queue, timer, now, resourceVersion, calls>>

\* The clean-up of the deleted policy p is cancelled in RemoveDecoy for the
\* first record of workload w, after the loop over the record's containers
\* and before the annotation of w is updated.
CancelledRemoval(p, w) ==
    /\ budget > 0
    /\ p \in queue
    /\ policies[p].exists /\ policies[p].deleting /\ policies[p].finalizer
    /\ workloads[w].exists
    /\ GetAnnotationChange(workloads[w].annotation, p) # <<>>
    /\ \E r \in {RemoveFromContainers(
                     [W |-> workloads, S |-> secrets, T |-> tracingPolicies,
                      gen |-> {}, execs |-> <<>>],
                     [mounts |-> workloads[w].mounts, volumes |-> workloads[w].volumes,
                      stale |-> FALSE],
                     Head(GetAnnotationChange(workloads[w].annotation, p)), w,
                     Head(GetAnnotationChange(workloads[w].annotation, p)).containers,
                     NoFault, <<>>, FALSE)} :
          Cancelled(p, r.cl.W, r.cl.S)

\* The deployment of the first trap of policy p is cancelled in DeployDecoy
\* for workload w, after the loop over the selected containers and before
\* the annotation of w is updated.
CancelledDeployment(p, w) ==
    /\ budget > 0
    /\ p \in queue
    /\ policies[p].exists /\ ~policies[p].deleting /\ policies[p].finalizer
    /\ policies[p].traps # <<>> /\ IsValid(Head(policies[p].traps))
    /\ \E m \in {GetDeployableObjectsWithContainers(workloads, Head(policies[p].traps),
                      IF ~policies[p].mutateExisting THEN policies[p].createdAt
                      ELSE NoTime)} :
          /\ ~m.err
          /\ w \in DOMAIN m.deployable
          /\ \E r \in {DeployToContainers(
                           [W |-> workloads, S |-> secrets, T |-> tracingPolicies,
                            gen |-> {}, execs |-> <<>>],
                           Head(policies[p].traps), w, m.deployable[w],
                           AlreadyDeployed(GetAnnotationChange(workloads[w].annotation, p),
                                           Head(policies[p].traps)),
                           NoFault, <<>>, FALSE)} :
                Cancelled(p, r.cl.W, r.cl.S)

\* The controller left to itself (see LiveSpec), with passes that are
\* cancelled half-way.
AbortNext ==
    \/ \E p \in PolicyNames : ReconcileQuiet(p)
    \/ \E p \in PolicyNames : TimerFire(p)
    \/ \E p \in PolicyNames : \E typed \in BOOLEAN :
          CreatePolicy(p, PolicySpec(<<ExecTrap>>, TRUE, TRUE), typed)
    \/ \E p \in PolicyNames : DeletePolicy(p)
    \/ \E p \in PolicyNames : \E w \in WorkloadIds : CancelledRemoval(p, w)
    \/ \E p \in PolicyNames : \E w \in WorkloadIds : CancelledDeployment(p, w)

AbortSpec == LiveInit /\ [][AbortNext]_vars /\ Fairness

(***************************************************************************)
(* The API calls of the deployer and the remover, one request at a time.   *)
(* Two reconciliations (clients) work on the deployment "dep1" with the    *)
(* volumeMount trap while another writer of the cluster changes the stored *)
(* object.  A call is [kind, pc, container, read, tries, touched, result]: *)
(* read is the object as the client holds it, tries the conflicts its      *)
(* retry loop has seen, touched the foreign writes since the call began.   *)
(***************************************************************************)
MaxCallEvents == 4

\* retry.DefaultBackoff.Steps: the attempts of RetryOnConflict.
RetrySteps == 4

CallTarget == "dep1"

CallPolicy(c) == IF c = "c1" THEN "p1" ELSE "p2"

\* The writes to a workload, and the creations of a named object.
WriteKinds == {"annotate", "unannotate", "mount", "unmount"}

CreateKinds == {"secret", "tracingPolicy"}

\* A controller whose retry loops read the workload once, before the loop.
RereadNoKinds == {}

\* The writes whose retry loop begins with Client.Get.
RereadKinds == {"annotate", "unannotate"}

ReadOf(w) ==
    [rv |-> resourceVersion[w], volumes |-> workloads[w].volumes,
     mounts |-> workloads[w].mounts, annotation |-> workloads[w].annotation]

Call(kind, pc, container, read) ==
    [kind |-> kind, pc |-> pc, container |-> container, read |-> read,
     tries |-> 0, touched |-> 0, result |-> ""]

\* A write of the stored workload by someone else, as the calls in flight see it.
Touched(cs, writer) ==
    [c \in Clients |->
        IF c # writer /\ cs[c].kind \in WriteKinds /\ cs[c].pc \notin {"idle", "done"}
        THEN [cs[c] EXCEPT !.touched = @ + 1] ELSE cs[c]]

\* The call starts.  removeDecoyWithVolumeMount works on the deployment its
\* caller listed; every other call starts with Client.Get.
BeginCall(c, kind, container) ==
    /\ budget > 0
    /\ calls[c] = NoCall
    /\ calls' = [calls EXCEPT ![c] =
                    IF kind = "unmount"
                    THEN Call(kind, "update", container, ReadOf(CallTarget))
                    ELSE Call(kind, "get", container, NoRead)]
    /\ budget' = budget - 1
    /\ last' = Event("BeginCall", c)
    /\ UNCHANGED <<policies, workloads, secrets, tracingPolicies, queue, timer, now,
                   resourceVersion>>

CallSecret == [namespace |-> WorkloadInfo[CallTarget].namespace,
               name |-> generateSecretName(VolumeTrap)]

CallTracingPolicyName == GenerateTetragonTracingPolicyName(VolumeTrap)

Found(kind) ==
    IF kind = "secret" THEN CallSecret \in secrets
    ELSE \E tp \in tracingPolicies : tp.name = CallTracingPolicyName

\* Client.Get: of the workload, or of the object the call would create.
GetCall(c) ==
    /\ calls[c].pc = "get"
    /\ calls' = [calls EXCEPT ![c] =
                    IF @.kind \in WriteKinds
                    THEN [@ EXCEPT !.pc = "update", !.read = ReadOf(CallTarget)]
                    ELSE IF Found(@.kind)
                         THEN [@ EXCEPT !.pc = "done", !.result = "ok"]
                         ELSE [@ EXCEPT !.pc = "create"]]
    /\ last' = Event("GetCall", c)
    /\ UNCHANGED <<policies, workloads, secrets, tracingPolicies, queue, timer, now,
                   budget, resourceVersion>>

\* The object the call sends: the one it read, changed by the caller.
Written(c) ==
    LET call == calls[c]
        rec == convertTrapToTrapAnnotation(VolumeTrap, <<call.container>>, now)
        cl == [W |-> [workloads EXCEPT ![CallTarget].volumes = call.read.volumes,
                                       ![CallTarget].mounts = call.read.mounts,
                                       ![CallTarget].annotation = call.read.annotation],
               S |-> secrets, T |-> tracingPolicies, gen |-> {}, execs |-> <<>>]
        mem == [mounts |-> call.read.mounts, volumes |-> call.read.volumes, stale |-> FALSE]
    IN IF call.kind = "annotate"
       THEN [cl EXCEPT !.W[CallTarget].annotation =
                AddTrapToAnnotations(@, CallPolicy(c), VolumeTrap, <<call.container>>, now)]
       ELSE IF call.kind = "unannotate"
       THEN [cl EXCEPT !.W[CallTarget].annotation =
                RemoveTrapAnnotations(@, CallPolicy(c), rec)]
       ELSE IF call.kind = "mount"
       THEN [deployDecoyWithVolumeMount(cl, VolumeTrap, CallTarget, call.container).cl
                EXCEPT !.S = secrets]
       ELSE Bind(removeDecoyWithVolumeMount(cl, mem, rec, CallTarget, call.container),
                 LAMBDA r :
                    [r.cl EXCEPT
                        !.W[CallTarget].mounts = r.mem.mounts,
                        !.W[CallTarget].volumes =
                            {v \in call.read.volumes :
                                v.name # generateVolumeName(
                                             rec.filesystemHoneytoken.filePath)}])

\* Client.Update inside retry.RetryOnConflict: the API server takes the
\* object when its resourceVersion is the stored one and the template is
\* valid, and answers Conflict otherwise; the loop gives up after RetrySteps
\* conflicts.  Only the writes in RereadKinds read again before the next try.
\* removeDecoyWithVolumeMount then deletes the secret of the volume it took
\* out of its copy, whatever the update returned.
UpdateCall(c) ==
    /\ calls[c].pc = "update"
    /\ LET call == calls[c]
           fresh == call.read.rv = resourceVersion[CallTarget]
           sent == Written(c).W[CallTarget]
           valid == TemplateValid(sent.volumes, sent.mounts)
       IN IF fresh /\ valid
          THEN /\ workloads' = [workloads EXCEPT ![CallTarget] = sent]
               /\ resourceVersion' = [resourceVersion EXCEPT ![CallTarget] = @ + 1]
               /\ calls' = [Touched(calls, c) EXCEPT ![c].pc = "done", ![c].result = "ok"]
          ELSE IF fresh
          THEN /\ calls' = [calls EXCEPT ![c].pc = "done", ![c].result = "invalid"]
               /\ UNCHANGED <<workloads, resourceVersion>>
          ELSE /\ calls' = [calls EXCEPT ![c] =
                              IF @.tries + 1 = RetrySteps
                              THEN [@ EXCEPT !.tries = @ + 1, !.pc = "done",
                                             !.result = "conflict"]
                              ELSE [@ EXCEPT !.tries = @ + 1,
                                             !.pc = IF call.kind \in RereadKinds
                                                    THEN "get" ELSE "update"]]
               /\ UNCHANGED <<workloads, resourceVersion>>
    /\ secrets' = IF calls[c].kind = "unmount" /\ calls'[c].pc = "done"
                  THEN Written(c).S ELSE secrets
    /\ last' = Event("UpdateCall", c)
    /\ UNCHANGED <<policies, tracingPolicies, queue, timer, now, budget>>

\* Client.Create after a Get that found nothing: AlreadyExists when the
\* object has appeared since.  RetryOnConflict passes AlreadyExists through.
CreateCall(c) ==
    /\ calls[c].pc = "create"
    /\ IF Found(calls[c].kind)
       THEN /\ calls' = [calls EXCEPT ![c].pc = "done", ![c].result = "alreadyExists"]
            /\ UNCHANGED <<secrets, tracingPolicies>>
       ELSE /\ calls' = [calls EXCEPT ![c].pc = "done", ![c].result = "ok"]
            /\ secrets' = IF calls[c].kind = "secret"
                          THEN createSecret(secrets, CallSecret.namespace, CallSecret.name)
                          ELSE secrets
            /\ tracingPolicies' =
                  IF calls[c].kind = "tracingPolicy"
                  THEN tracingPolicies
                           \cup {[name |-> CallTracingPolicyName, owner |-> CallPolicy(c)]}
                  ELSE tracingPolicies
    /\ last' = Event("CreateCall", c)
    /\ UNCHANGED <<policies, workloads, queue, timer, now, budget, resourceVersion>>

\* What the caller gets back: nil, or the error of the last request.
CallError(call) == call.pc = "done" /\ call.result # "ok"

ReturnCall(c) ==
    /\ calls[c].pc = "done"
    /\ calls' = [calls EXCEPT ![c] = NoCall]
    /\ last' = Event("ReturnCall", c)
    /\ UNCHANGED <<policies, workloads, secrets, tracingPolicies, queue, timer, now,
                   budget, resourceVersion>>

\* Another writer (the deployment controller's status update, a user)
\* stores a new version of the workload.
Touch(w) ==
    /\ budget > 0
    /\ workloads[w].exists
    /\ resourceVersion' = [resourceVersion EXCEPT ![w] = @ + 1]
    /\ calls' = IF w = CallTarget THEN Touched(calls, "") ELSE calls
    /\ budget' = budget - 1
    /\ last' = Event("Touch", w)
    /\ UNCHANGED <<policies, workloads, secrets, tracingPolicies, queue, timer, now>>

CallInit == InitWith(MaxCallEvents)

CallNext ==
    \/ \E c \in Clients : \E kind \in WriteKinds \cup CreateKinds :
          \E container \in Range(WorkloadInfo[CallTarget].containers) :
             BeginCall(c, kind, container)
    \/ \E c \in Clients : GetCall(c)
    \/ \E c \in Clients : UpdateCall(c)
    \/ \E c \in Clients : CreateCall(c)
    \/ \E c \in Clients : ReturnCall(c)
    \/ Touch(CallTarget)

CallSpec == CallInit /\ [][CallNext]_vars

(***************************************************************************)
(* The decoy deployer under faults of single containers: one policy whose  *)
(* containerExec traps select every container of the labelled pods, a      *)
(* second pod that is created while the policy exists, containers that     *)
(* become ready and unready, and passes in which the exec calls of one     *)
(* kind fail in one container, or the shell of one container stores a      *)
(* different content.                                                      *)
(***************************************************************************)
MaxDeployEvents == 4

DeployPods == {"pod1", "pod2"}

\* ExecTrap for every container of the pod.
WideTrap ==
    [ExecTrap EXCEPT !.any = << [namespaces |-> <<>>, matchLabels |-> {HoneytokenLabel},
                                 containerSelector |-> "*"] >>]

\* A writable honeytoken whose content ends in a line break.
WritableTrap ==
    [WideTrap EXCEPT !.filesystemHoneytoken =
        [filePath |-> <<"", "tmp", "token">>, fileContent |-> <<"y", "\n">>,
         readOnly |-> FALSE]]

\* ExecTrap with two filters whose container selectors overlap.
TwoFilterTrap ==
    [ExecTrap EXCEPT !.any = << [namespaces |-> <<>>, matchLabels |-> {HoneytokenLabel},
                                 containerSelector |-> "nginx"],
                                [namespaces |-> <<>>, matchLabels |-> {HoneytokenLabel},
                                 containerSelector |-> "*"] >>]

\* VolumeTrap with two filters whose container selectors overlap.
TwoFilterMount ==
    [VolumeTrap EXCEPT !.any = << [namespaces |-> <<"prod">>, matchLabels |-> {},
                                   containerSelector |-> "app"],
                                  [namespaces |-> <<"prod">>, matchLabels |-> {},
                                   containerSelector |-> "*"] >>]

DeployTrapLists ==
    { <<WideTrap>>, <<WritableTrap>>, <<WideTrap, WritableTrap>>, <<TwoFilterTrap>>,
      <<TwoFilterMount>> }

\* The steps of a deployment into a container that the environment makes fail.
DeploySteps == {"mkdir", "write", "cat", "chmod", "garble", "newline"}

ContainerFaults ==
    {NoFault}
        \cup {[NoFault EXCEPT !.exec = step, !.only = c] :
                 step \in DeploySteps,
                 c \in UNION {Range(WorkloadInfo[w].containers) : w \in DeployPods}}

DeployInit == InitWith(MaxDeployEvents)

DeployNextStep ==
    \/ \E fault \in ContainerFaults : ReconcileUnder("p1", fault)
    \/ TimerFire("p1")
    \/ \E traps \in DeployTrapLists : CreatePolicy("p1", PolicySpec(traps, TRUE, TRUE), TRUE)
    \/ CreateWorkload("pod2", {HoneytokenLabel})
    \/ \E w \in DeployPods : \E ready \in ReadySets(w) : ChangeReadiness(w, ready)

DeploySpec == DeployInit /\ [][DeployNextStep]_vars

(***************************************************************************)
(* Package matching on its own: every workload exists, the environment     *)
(* changes labels, pod phases and container states, and a caller matches   *)
(* the workloads of one kind against one or two resource filters or asks   *)
(* for the deployable objects of a trap.  Two pods have the same name in   *)
(* different namespaces.                                                   *)
(***************************************************************************)
MaxMatchEvents == 1

MatchNamespaces == { <<>>, <<"prod">>, <<"prod", "dev">> }

MatchSelectors == {"*", "nginx", "sidecar"}

ResourceFilters ==
    {[namespaces |-> ns, matchLabels |-> labels, containerSelector |-> sel] :
        ns \in MatchNamespaces, labels \in LabelSets, sel \in MatchSelectors}

Kinds == {"Pod", "Deployment"}

\* A pod whose node stops reporting is in phase Unknown, its container
\* statuses being the last ones reported.
Phases == {"Running", "Unknown"}

\* The status of pod w gets another phase.
ChangePhase(w, phase) ==
    /\ budget > 0
    /\ workloads[w].exists /\ ~workloads[w].deleting /\ WorkloadInfo[w].kind = "Pod"
    /\ phase # workloads[w].phase
    /\ workloads' = [workloads EXCEPT ![w].phase = phase]
    /\ queue' = queue \cup
          WorkloadRequests(UpdateFunc(WorkloadInfo[w].kind, FALSE, FALSE), w, workloads')
    /\ budget' = budget - 1
    /\ last' = Event("ChangePhase", w)
    /\ UNCHANGED <<policies, secrets, tracingPolicies, timer, now, resourceVersion, calls>>

\* Container c of pod w stops running, which makes it unready, or starts
\* running.
ChangeRunning(w, c) ==
    /\ budget > 0
    /\ workloads[w].exists /\ ~workloads[w].deleting /\ WorkloadInfo[w].kind = "Pod"
    /\ workloads' = [workloads EXCEPT
                        ![w].running = IF c \in @ THEN @ \ {c} ELSE @ \cup {c},
                        ![w].ready = @ \ {c}]
    /\ queue' = queue \cup
          WorkloadRequests(UpdateFunc(WorkloadInfo[w].kind, FALSE, FALSE), w, workloads')
    /\ budget' = budget - 1
    /\ last' = Event("ChangeRunning", w)
    /\ UNCHANGED <<policies, secrets, tracingPolicies, timer, now, resourceVersion, calls>>

\* A call reads the cluster and changes nothing, so a call that follows
\* another returns what it returns anywhere else: calls are taken after the
\* start and after the events of the environment.
Quiescent == last.op \notin {"Match", "GetDeployable"}

\* A call of getMatchingObjectsWithContainers; the step keeps its arguments
\* and what it returned.
Match(kind, any) ==
    /\ Quiescent
    /\ last' = [Event("Match", kind) EXCEPT
                   !.args = any,
                   !.expected = {getMatchingObjectsWithContainers(workloads, kind, any)}]
    /\ UNCHANGED <<policies, workloads, secrets, tracingPolicies, queue, timer, now,
                   budget, resourceVersion, calls>>

\* A trap with one filter, as GetDeployableObjectsWithContainers reads it.
MatchTrap(strategy, filter) ==
    [ExecTrap EXCEPT !.decoyStrategy = strategy, !.any = <<filter>>]

\* A call of GetDeployableObjectsWithContainers for a trap, createdAfter
\* being NoTime when no timestamp is given.
GetDeployable(trap, createdAfter) ==
    /\ Quiescent
    /\ last' = [Event("GetDeployable", trap.decoyStrategy) EXCEPT
                   !.args = <<trap, createdAfter>>,
                   !.expected = {GetDeployableObjectsWithContainers(workloads, trap,
                                                                    createdAfter)}]
    /\ UNCHANGED <<policies, workloads, secrets, tracingPolicies, queue, timer, now,
                   budget, resourceVersion, calls>>

\* Every workload exists, fully ready, with or without the label; the
\* second pod is younger than the others.
MatchInit ==
    /\ policies = [p \in PolicyNames |-> AbsentPolicy]
    /\ \E labels \in [WorkloadIds -> LabelSets] :
          workloads = [w \in WorkloadIds |->
                         WorkloadAt(w, IF w = "pod2" THEN 1 ELSE 0, labels[w])]
    /\ secrets = {}
    /\ tracingPolicies = {}
    /\ queue = {}
    /\ timer = [p \in PolicyNames |-> "none"]
    /\ now = 1
    /\ budget = MaxMatchEvents
    /\ last = Event("Init", "")
    /\ resourceVersion = [w \in WorkloadIds |-> 0]
    /\ calls = [c \in Clients |-> NoCall]

MatchNext ==
    \/ \E kind \in Kinds : \E f \in ResourceFilters : Match(kind, <<f>>)
    \/ \E kind \in Kinds : \E f1, f2 \in ResourceFilters : Match(kind, <<f1, f2>>)
    \/ \E strategy \in {"containerExec", "volumeMount"} : \E f \in ResourceFilters :
          \E createdAfter \in {NoTime, 0} :
             GetDeployable(MatchTrap(strategy, f), createdAfter)
    \/ \E w \in WorkloadIds : \E labels \in LabelSets : ChangeLabels(w, labels)
    \/ \E w \in WorkloadIds : \E ready \in ReadySets(w) : ChangeReadiness(w, ready)
    \/ \E w \in WorkloadIds : \E phase \in Phases : ChangePhase(w, phase)
    \/ \E w \in WorkloadIds : \E c \in Range(WorkloadInfo[w].containers) :
          ChangeRunning(w, c)
    \/ \E w \in WorkloadIds : DeleteWorkload(w)

MatchSpec == MatchInit /\ [][MatchNext]_vars

(***************************************************************************)
(* The status of one policy on its own: PutCondition is called with        *)
(* conditions of any type, status, reason and message, at times that do    *)
(* not go back, on a status that starts without conditions.                *)
(***************************************************************************)
MaxCondEvents == 3

CondPolicy == "p1"

PutValues ==
    {Condition(status, reason, message) :
        status \in {"True", "False"},
        reason \in {"DecoyDeploymentSucceeded", "NoObjectsMatched"},
        message \in {"", "No objects matching selection criteria"}}

\* status.PutCondition(ty, c.status, c.reason, c.message) at time t: args is
\* the condition handed in, expected holds the returned flag.
PutConditionCall(ty, c, t) ==
    /\ budget > 0
    /\ policies' = [policies EXCEPT ![CondPolicy].conds[ty] = PutCondition(@, c, t)]
    /\ now' = t
    /\ budget' = budget - 1
    /\ last' = [Event("PutCondition", ty) EXCEPT
                   !.args = <<c>>,
                   !.expected = {PutConditionModified(policies[CondPolicy].conds[ty], c)}]
    /\ UNCHANGED <<workloads, secrets, tracingPolicies, queue, timer, resourceVersion, calls>>

CondInit ==
    /\ policies = [p \in PolicyNames |->
                      IF p = CondPolicy
                      THEN [AbsentPolicy EXCEPT !.exists = TRUE, !.traps = <<ExecTrap>>]
                      ELSE AbsentPolicy]
    /\ workloads = [w \in WorkloadIds |-> AbsentWorkload]
    /\ secrets = {}
    /\ tracingPolicies = {}
    /\ queue = {}
    /\ timer = [p \in PolicyNames |-> "none"]
    /\ now = 0
    /\ budget = MaxCondEvents
    /\ last = Event("Init", "")
    /\ resourceVersion = [w \in WorkloadIds |-> 0]
    /\ calls = [c \in Clients |-> NoCall]

CondNext ==
    \E ty \in CondTypes : \E c \in PutValues : \E t \in now..MaxTime :
        PutConditionCall(ty, c, t)

CondSpec == CondInit /\ [][CondNext]_vars

(***************************************************************************)
(* The pod selector of a tracing policy.  A label is written "key=value";  *)
(* the policy is created for a trap with one or two filters, in a cluster  *)
(* with a pod of namespace "prod" and a second one that appears later,     *)
(* each carrying any of three labels.                                      *)
(***************************************************************************)
MaxSelectorEvents == 2

TierWeb == "tier=web"

TierDb == "tier=db"

\* The key of a label, the part before "=".
LabelKey(l) ==
    IF l = HoneytokenLabel THEN "demo.koney/honeytoken"
    ELSE IF l \in {TierWeb, TierDb} THEN "tier" ELSE l

\* matchLabels[key] = value for the labels of one filter: an entry of the
\* same key is overwritten.
PutMatchLabels(acc, labels) ==
    {l \in acc : \A m \in labels : LabelKey(m) # LabelKey(l)} \cup labels

\* Spec.PodSelector.MatchLabels of the tracing policy generated for the trap:
\* empty at first, then the labels of every filter of the trap are put in.
RECURSIVE PodSelectorOver(_, _)
PodSelectorOver(any, acc) ==
    IF any = <<>> THEN acc
    ELSE PodSelectorOver(Tail(any), PutMatchLabels(acc, Head(any).matchLabels))

PodSelector(trap) == PodSelectorOver(trap.any, {})

\* A label selector selects the objects that carry every one of its
\* matchLabels; without matchLabels it selects every object.
PodSelectorSelects(trap, labels) == PodSelector(trap) \subseteq labels

SelectorPods == {"pod1", "pod2"}

SelectorLabelSets ==
    { {}, {HoneytokenLabel}, {TierWeb}, {TierDb}, {HoneytokenLabel, TierWeb},
      {HoneytokenLabel, TierDb} }

SelectorFilter(namespaces, labels) ==
    [namespaces |-> namespaces, matchLabels |-> labels, containerSelector |-> "*"]

\* ExecTrap for the pods that carry the honeytoken label and the tier.
BothLabelsTrap ==
    [ExecTrap EXCEPT !.any = << SelectorFilter(<<>>, {HoneytokenLabel, TierWeb}) >>]

\* ExecTrap for the pods of either label.
EitherLabelTrap ==
    [ExecTrap EXCEPT !.any = << SelectorFilter(<<>>, {HoneytokenLabel}),
                                SelectorFilter(<<>>, {TierWeb}) >>]

\* ExecTrap for the pods of either tier.
EitherTierTrap ==
    [ExecTrap EXCEPT !.any = << SelectorFilter(<<>>, {TierWeb}),
                                SelectorFilter(<<>>, {TierDb}) >>]

\* ExecTrap for the labelled pods and every pod of the namespace.
LabelOrNamespaceTrap ==
    [ExecTrap EXCEPT !.any = << SelectorFilter(<<>>, {HoneytokenLabel}),
                                SelectorFilter(<<"prod">>, {}) >>]

\* ExecTrap for every pod of the namespace.
NamespaceTrap ==
    [ExecTrap EXCEPT !.any = << SelectorFilter(<<"prod">>, {}) >>]

SelectorTraps ==
    {WideTrap, BothLabelsTrap, EitherLabelTrap, EitherTierTrap, LabelOrNamespaceTrap,
     NamespaceTrap}

SelectorInit ==
    /\ policies = [p \in PolicyNames |-> AbsentPolicy]
    /\ \E labels \in SelectorLabelSets : \E ready \in ReadySets("pod1") :
          workloads = [w \in WorkloadIds |->
                         IF w = "pod1"
                         THEN [WorkloadAt(w, 0, labels) EXCEPT !.ready = ready]
                         ELSE AbsentWorkload]
    /\ secrets = {}
    /\ tracingPolicies = {}
    /\ queue = {}
    /\ timer = [p \in PolicyNames |-> "none"]
    /\ now = 0
    /\ budget = MaxSelectorEvents
    /\ last = Event("Init", "")
    /\ resourceVersion = [w \in WorkloadIds |-> 0]
    /\ calls = [c \in Clients |-> NoCall]

SelectorNext ==
    \/ \E trap \in SelectorTraps :
          CreatePolicy("p1", PolicySpec(<<trap>>, TRUE, TRUE), TRUE)
    \/ \E labels \in SelectorLabelSets : CreateWorkload("pod2", labels)
    \/ ReconcileQuiet("p1")
    \/ TimerFire("p1")

SelectorSpec == SelectorInit /\ [][SelectorNext]_vars

(***************************************************************************)
(* Properties.                                                             *)
(***************************************************************************)
\* The records of policy p in the ledger of workload w.
RecordsOf(W, w, p) == GetAnnotationChange(W[w].annotation, p)

Installed(p) ==
    \E w \in WorkloadIds : workloads[w].exists /\ RecordsOf(workloads, w, p) # <<>>

\* The step is a pass of Reconcile for p.
PassFor(p) == last'.op = "Reconcile" /\ last'.policy = p

DeletionOwed(p) ==
    /\ policies[p].exists /\ policies[p].deleting /\ policies[p].finalizer
    /\ Installed(p)

CleanedUp(p) == ~Installed(p) /\ ~policies[p].finalizer

\* C1: after a policy that holds the finalizer and has installed traps is
\* deleted, eventually no workload's ledger holds a record of the policy and
\* the policy's finalizer is removed.
C1_CleanupCompleteness == \A p \in PolicyNames : DeletionOwed(p) ~> CleanedUp(p)

C1_DeletionOwed == DeletionOwed("p2") /\ last.op = "Reconcile" /\ last.stage = "cleanupError"

\* Policy p has just been created with budget k left, and the pod its trap
\* matches runs with the selected container ready.
JustCreated(p, k) ==
    /\ last.op = "CreatePolicy" /\ last.policy = p /\ budget = k
    /\ policies[p].traps = <<ExecTrap>>
    /\ workloads["pod1"].exists /\ ~workloads["pod1"].deleting
    /\ HoneytokenLabel \in workloads["pod1"].labels
    /\ "nginx" \in workloads["pod1"].ready

ChangesOf(a, p) == {i \in DOMAIN a.changes : a.changes[i].deceptionPolicyName = p}

DecoyDeployed(p) ==
    /\ Cardinality(ChangesOf(workloads["pod1"].annotation, p)) = 1
    /\ Len(RecordsOf(workloads, "pod1", p)) = 1
    /\ RecordsOf(workloads, "pod1", p)[1].containers = <<"nginx">>
    /\ AreTheSameTrap(RecordsOf(workloads, "pod1", p)[1], ExecTrap)
    /\ policies[p].conds["DecoysDeployed"].status = "True"
    /\ policies[p].conds["DecoysDeployed"].reason = "DecoyDeploymentSucceeded"
    /\ policies[p].conds["DecoysDeployed"].message = "1/1 decoys deployed (0 skipped)"

\* C2: when a valid policy with one containerExec trap is created while a
\* matching pod with a ready selected container exists, every call succeeds
\* and no other cluster event follows (the event budget stays as it is), then
\* eventually the pod's ledger holds exactly one change of the policy with one
\* record listing that container, and DecoysDeployed is
\* True/DecoyDeploymentSucceeded, "1/1 decoys deployed (0 skipped)".
C2_CreateLeadsToDeployment ==
    \A p \in PolicyNames : \A k \in 0..MaxLiveEvents :
        JustCreated(p, k) ~> (DecoyDeployed(p) \/ budget # k)

C2_StuckAfterFinalizer ==
    /\ last.op = "Reconcile" /\ last.stage = "finalizer"
    /\ policies["p1"].finalizer /\ queue = {} /\ ~Installed("p1")
    /\ "nginx" \in workloads["pod1"].ready

LedgerImpliesFinalizer ==
    \A p \in PolicyNames : Installed(p) => policies[p].exists /\ policies[p].finalizer

\* A pass that finds the finalizer absent adds it and touches nothing else.
FinalizerPassOnlyAdds ==
    \A p \in PolicyNames :
        (PassFor(p) /\ policies[p].exists /\ ~policies[p].deleting /\ ~policies[p].finalizer)
            => /\ policies'[p].finalizer
               /\ policies'[p].conds = policies[p].conds
               /\ UNCHANGED <<workloads, secrets, tracingPolicies>>

\* The finalizer goes only once no workload holds a record of the policy.
FinalizerRemovedLast ==
    \A p \in PolicyNames :
        (policies[p].finalizer /\ ~policies'[p].finalizer)
            => \A w \in WorkloadIds : RecordsOf(workloads', w, p) = <<>>

\* C3: whenever a workload's ledger holds a record of a policy, the policy
\* exists and carries the finalizer; a pass that finds the finalizer absent
\* only adds it and deploys nothing; and the finalizer is removed only after
\* every record of the policy is gone from every workload.
C3_FinalizerGuardsLedger ==
    []LedgerImpliesFinalizer /\ [][FinalizerPassOnlyAdds /\ FinalizerRemovedLast]_vars

C3_CleanupFailedFinalizerKept ==
    /\ last.op = "Reconcile" /\ last.stage = "cleanupError"
    /\ Installed(last.policy) /\ policies[last.policy].finalizer

\* C4: a pass in which a decoy or captor deployment reported an error, a
\* partial deployment included, returns RequeueAfter = 60 s.
C4_ErrorRequeuesAfterLongInterval ==
    (last.op = "Reconcile" /\ last.seen)
        => last.requeueAfter = NormalFailureRetryInterval

C4_DeploymentErrorSeen ==
    /\ last.op = "Reconcile" /\ last.seen /\ last.fault.exec = "mkdir"
    /\ last.requeueAfter = 0 /\ ~last.err

\* Filter f of a trap selects workload w.
Selects(f, w) ==
    /\ f.namespaces = <<>> \/ WorkloadInfo[w].namespace \in Range(f.namespaces)
    /\ f.matchLabels \subseteq workloads[w].labels
    /\ \E c \in Range(WorkloadInfo[w].containers) :
          f.containerSelector \in {"*", "", c}

\* Workload w is one the trap of policy p is to be deployed to.
Targets(p, trap, w) ==
    /\ workloads[w].exists /\ ~workloads[w].deleting
    /\ WorkloadInfo[w].kind =
          (IF trap.decoyStrategy = "containerExec" THEN "Pod" ELSE "Deployment")
    /\ \E i \in DOMAIN trap.any : Selects(trap.any[i], w)
    /\ policies[p].mutateExisting \/ workloads[w].createdAt > policies[p].createdAt

FullyReady(w) == Range(WorkloadInfo[w].containers) \subseteq workloads[w].ready

\* A valid trap of p matches a workload that is not fully ready.
MatchedUnready(p) ==
    \E i \in DOMAIN policies[p].traps : \E w \in WorkloadIds :
        /\ IsValid(policies[p].traps[i])
        /\ Targets(p, policies[p].traps[i], w)
        /\ ~FullyReady(w)

\* C5: a pass without error in which a trap matched a workload that is not
\* fully ready returns RequeueAfter = 10 s, and a pass without error in which
\* no deployment asks for a retry returns no requeue.
C5_RetryRequeuesAfterShortInterval ==
    (last.op = "Reconcile" /\ ~last.err /\ ~last.seen)
        => last.requeueAfter =
              (IF last.stage = "deployed" /\ MatchedUnready(last.policy)
               THEN ShortStatusCheckInterval ELSE 0)

C5_UnreadyMatched ==
    /\ last.op = "Reconcile" /\ ~last.err /\ ~last.seen /\ last.stage = "deployed"
    /\ MatchedUnready(last.policy)
    /\ last.requeueAfter = ShortStatusCheckInterval

\* C6: an update of a pod or deployment that changes its labels or its
\* generation, its deletion timestamp unset, puts a request for every
\* existing policy in the queue.
C6_WorkloadUpdateRequestsEveryPolicy ==
    [][\A w \in WorkloadIds :
          (last'.op = "ChangeLabels" /\ last'.policy = w /\ ~workloads'[w].deleting)
              => \A p \in PolicyNames : policies[p].exists => p \in queue']_vars

C6_PodLabelsChanged ==
    /\ last.op = "ChangeLabels" /\ last.policy = "pod1"
    /\ policies["p1"].exists /\ "p1" \notin queue

\* The step is a pass for p that finds the finalizer absent and adds it.
FinalizerAdded(p) ==
    /\ PassFor(p)
    /\ policies[p].exists /\ ~policies[p].deleting /\ ~policies[p].finalizer
    /\ policies'[p].finalizer

\* C7: after a pass that adds the finalizer to a policy and stops, the update
\* of the policy passes the event filter, so that a request for the policy is
\* in the queue without any other event.
C7_FinalizerUpdateRequeues ==
    [][\A p \in PolicyNames : FinalizerAdded(p) => p \in queue']_vars

C7_FinalizerAddedNoRequest ==
    /\ last.op = "Reconcile" /\ last.stage = "finalizer"
    /\ policies[last.policy].finalizer /\ last.policy \notin queue
    /\ policies[last.policy].traps # <<>>

\* Workload w was not created strictly after policy p.
NotNewer(p, w) == workloads[w].exists /\ workloads[w].createdAt <= policies[p].createdAt

StrictInvalid(p) ==
    /\ policies[p].exists /\ ~policies[p].deleting /\ policies[p].finalizer
    /\ policies[p].strictValidation
    /\ \E i \in DOMAIN policies[p].traps : ~IsValid(policies[p].traps[i])

\* The step adds no decoy file, volume, mount, secret, tracing policy or
\* ledger record of p.
NothingDeployed(p) ==
    /\ \A w \in WorkloadIds :
          /\ workloads'[w].files \subseteq workloads[w].files
          /\ workloads'[w].volumes \subseteq workloads[w].volumes
          /\ workloads'[w].mounts \subseteq workloads[w].mounts
          /\ Len(RecordsOf(workloads', w, p)) <= Len(RecordsOf(workloads, w, p))
    /\ secrets' \subseteq secrets
    /\ tracingPolicies' \subseteq tracingPolicies

\* The conditions the pass staged are on the policy afterwards.
StagedWritten(p) ==
    /\ policies'[p].conds["ResourceFound"].status = "True"
    /\ policies'[p].conds["DecoysDeployed"].status = "Unknown"
    /\ policies'[p].conds["DecoysDeployed"].reason = "DecoyDeploymentPending"
    /\ policies'[p].conds["CaptorsDeployed"].status = "Unknown"
    /\ policies'[p].conds["CaptorsDeployed"].reason = "CaptorDeploymentPending"
    /\ last'.err
        \/ /\ policies'[p].conds["PolicyValid"].status = "False"
           /\ policies'[p].conds["PolicyValid"].reason = "TrapsSpecInvalid"

\* C9: a pass for a policy with an invalid trap and strictValidation = true
\* deploys no decoy and no captor for any of its traps, and writes the status
\* conditions it staged.
C9_StrictValidationDeploysNothing ==
    [][\A p \in PolicyNames :
          (PassFor(p) /\ StrictInvalid(p)) => NothingDeployed(p) /\ StagedWritten(p)]_vars

C9_StrictStop ==
    /\ last.op = "Reconcile" /\ last.stage = "strictStop"
    /\ policies[last.policy].conds["PolicyValid"].reason = "TrapsSpecInvalid"
    /\ \E i \in DOMAIN policies[last.policy].traps : IsValid(policies[last.policy].traps[i])
    /\ ~Installed(last.policy)

\* The record rec of p on w is of a trap that p's spec no longer declares.
Removed(p, w, rec) ==
    /\ rec \in Range(RecordsOf(workloads, w, p))
    /\ ~\E i \in DOMAIN policies[p].traps : AreTheSameTrap(rec, policies[p].traps[i])

\* C10: when a trap has been removed from a policy's spec, the next pass for
\* the policy, with no call failing for a reason outside it, removes the
\* trap's record from the ledger of every workload that carries it, and a
\* ledger left without records has its annotation key deleted.
C10_RemovedTrapIsCleanedUp ==
    [][\A p \in PolicyNames :
          (PassFor(p) /\ last'.fault = NoFault
              /\ policies[p].exists /\ ~policies[p].deleting /\ policies[p].finalizer)
              => \A w \in WorkloadIds :
                    /\ \A rec \in Range(RecordsOf(workloads, w, p)) :
                          Removed(p, w, rec)
                              => ~\E kept \in Range(RecordsOf(workloads', w, p)) :
                                     Equals(kept, rec, TRUE)
                    /\ workloads'[w].annotation.changes = <<>>
                          => ~workloads'[w].annotation.present]_vars

C10_RecordKept ==
    /\ last.op = "Reconcile" /\ last.stage = "removalError" /\ last.fault = NoFault
    /\ \E w \in WorkloadIds : \E rec \in Range(RecordsOf(workloads, w, last.policy)) :
          /\ ~\E i \in DOMAIN policies[last.policy].traps :
                 AreTheSameTrap(rec, policies[last.policy].traps[i])
          /\ Len(rec.containers) = 2

\* C11: every write of the controller to a workload (ledger annotation,
\* volumes and mounts of the pod template) reads the workload again before
\* each attempt, so the write gives up with a conflict only when a foreign
\* write came between the read and the write of every one of its attempts.
C11_WritesRetryOnFreshState ==
    \A c \in Clients :
        (calls[c].kind \in WriteKinds /\ calls[c].result = "conflict")
            => calls[c].touched >= RetrySteps

\* A volume write has returned a conflict after fewer foreign writes than it
\* had attempts.
C11_StaleObjectResent ==
    \E c \in Clients :
        /\ calls[c].kind \in {"mount", "unmount"}
        /\ calls[c].result = "conflict"
        /\ calls[c].tries = RetrySteps
        /\ calls[c].touched = 1

\* C12: the reconciliation that loses the race for a secret or a tracing
\* policy of the same name takes "already exists" as success: its call
\* returns no error.
C12_AlreadyExistsIsSuccess ==
    \A c \in Clients :
        (calls[c].kind \in CreateKinds /\ calls[c].result = "alreadyExists")
            => ~CallError(calls[c])

\* Both clients wanted the object; one created it, the other was answered
\* AlreadyExists.
C12_LostRace ==
    \E c, d \in Clients :
        /\ c # d
        /\ calls[c].kind \in CreateKinds /\ calls[c].result = "alreadyExists"
        /\ calls[d].kind = calls[c].kind /\ calls[d].result = "ok"
        /\ Found(calls[c].kind)

\* The pass for p has just been cancelled, with budget k left.
JustCancelled(p, k) == last.op = "Cancelled" /\ last.policy = p /\ budget = k

\* Ledger and decoys are what the uninterrupted pass would have left.
Resumed(p) == last.expected = {Digest(workloads, policies, p)}

\* C13: after a pass for a policy is cancelled between its work in the
\* containers (or on the pod template) and the ledger write, and no other
\* cluster event follows, the later passes for the policy eventually reach
\* the ledger and decoy state the uninterrupted pass would have left.
C13_CancelledPassIsResumed ==
    \A p \in PolicyNames : \A k \in 0..MaxLiveEvents :
        JustCancelled(p, k) ~> (Resumed(p) \/ budget # k)

\* The clean-up of a deleted policy was cancelled after rm, and the pass that
\* follows fails on the file that is gone: the record and the finalizer stay.
C13_ResumedCleanupFails ==
    /\ last.op = "Reconcile" /\ last.stage = "cleanupError" /\ last.fault = NoFault
    /\ last.expected # {} /\ ~Resumed(last.policy)
    /\ \E e \in last.expected : e.policy = last.policy /\ e.recorded = {} /\ ~e.finalizer
    /\ Installed(last.policy) /\ policies[last.policy].finalizer

\* The containers of workload w the filters of the trap select.
SelectedBy(trap, w) ==
    {c \in Range(WorkloadInfo[w].containers) :
        \E i \in DOMAIN trap.any :
            /\ Selects(trap.any[i], w)
            /\ trap.any[i].containerSelector \in {"*", "", c}}

RecordedFor(p, trap, w) ==
    {c \in Range(WorkloadInfo[w].containers) :
        \E rec \in Range(RecordsOf(workloads, w, p)) :
            AreTheSameTrap(rec, trap) /\ Contains(rec.containers, c)}

\* Policy p has nothing left to do: it holds the finalizer, every trap is
\* valid, every workload a trap matches is ready with every selected
\* container recorded, every record is of a declared trap, and the tracing
\* policy of every trap exists.
Converged(p) ==
    /\ policies[p].exists /\ ~policies[p].deleting /\ policies[p].finalizer
    /\ policies[p].traps # <<>>
    /\ \A i \in DOMAIN policies[p].traps :
          /\ IsValid(policies[p].traps[i])
          /\ \E tp \in tracingPolicies :
                tp.name = GenerateTetragonTracingPolicyName(policies[p].traps[i])
          /\ \A w \in WorkloadIds :
                Targets(p, policies[p].traps[i], w)
                    => /\ FullyReady(w)
                       /\ SelectedBy(policies[p].traps[i], w)
                              \subseteq RecordedFor(p, policies[p].traps[i], w)
    /\ \A w \in WorkloadIds : \A rec \in Range(RecordsOf(workloads, w, p)) :
          workloads[w].exists => ~Surplus(rec, policies[p].traps)
    /\ \A tp \in tracingPolicies :
          tp.owner = p => \E i \in DOMAIN policies[p].traps :
                             tp.name = GenerateTetragonTracingPolicyName(policies[p].traps[i])

WithoutUpdatedAt(traps) == [j \in DOMAIN traps |-> [traps[j] EXCEPT !.updatedAt = NoTime]]

\* The ledger, read without the updatedAt of its records.
LedgerModuloUpdatedAt(a) ==
    [a EXCEPT !.changes =
        [i \in DOMAIN a.changes |->
            [a.changes[i] EXCEPT !.traps = WithoutUpdatedAt(a.changes[i].traps)]]]

SameButUpdatedAt(w) ==
    [workloads'[w] EXCEPT !.annotation = LedgerModuloUpdatedAt(@)]
        = [workloads[w] EXCEPT !.annotation = LedgerModuloUpdatedAt(@)]

Identity(rec) ==
    <<rec.deploymentStrategy, rec.filesystemHoneytoken.filePath,
      rec.filesystemHoneytoken.fileContentHash, rec.filesystemHoneytoken.readOnly>>

\* The records in ledger a under policy name p, over all its changes.
AllRecords(a, p) ==
    {<<i, j>> \in (DOMAIN a.changes) \X (1..4) :
        a.changes[i].deceptionPolicyName = p /\ j \in DOMAIN a.changes[i].traps}

\* C15: after any sequence of Add, UpdateContainers and Remove on a workload
\* that starts without annotation, the ledger holds for every policy name
\* and every trap identity at most one record.
C15_OneRecordPerIdentity ==
    \A w \in WorkloadIds : \A p \in PolicyNames :
        \A x, y \in AllRecords(workloads[w].annotation, p) :
            Identity(workloads[w].annotation.changes[x[1]].traps[x[2]])
                = Identity(workloads[w].annotation.changes[y[1]].traps[y[2]])
                => x = y

\* UpdateContainers has just rewritten the container list of a record that
\* sits beside a record of another identity of the same policy.
C15_RecordRewritten ==
    /\ last.op = "UpdateContainers"
    /\ \E rec \in Range(RecordsOf(workloads, LedgerTarget, last.policy)) :
          /\ AreTheSameTrap(rec, last.args[1])
          /\ rec.containers = last.args[2] /\ rec.updatedAt = now
    /\ Len(RecordsOf(workloads, LedgerTarget, last.policy)) = 2

\* The step is the call of Add that the step before was.
AddRepeated ==
    /\ last.op = "Add" /\ last'.op = "Add"
    /\ last'.policy = last.policy /\ last'.args = last.args

\* C16: Add twice in a row with the same arguments leaves the ledger of the
\* first call, but for the updatedAt of the record.
C16_AddTwiceIsAddOnce ==
    [][AddRepeated
          => LedgerModuloUpdatedAt(workloads'[LedgerTarget].annotation)
                 = LedgerModuloUpdatedAt(workloads[LedgerTarget].annotation)]_vars

\* Add was called again, later, with the arguments of the call before: the
\* record carries createdAt of the first call and updatedAt of the second.
C16_AddedAgainLater ==
    /\ last.op = "Add" /\ last.turn
    /\ \E rec \in Range(RecordsOf(workloads, LedgerTarget, last.policy)) :
          /\ AreTheSameTrap(rec, last.args[1])
          /\ rec.containers = last.args[2]
          /\ rec.updatedAt = now /\ rec.createdAt < now

\* The ledger holds no record of policy p with the identity of the trap.
NoRecordOf(a, p, trap) ==
    \A x \in AllRecords(a, p) : ~AreTheSameTrap(a.changes[x[1]].traps[x[2]], trap)

\* C17: UpdateContainers on a ledger without a record of the identity for
\* the policy (the policy may have no change, the workload no annotation)
\* leaves a record of the policy with that identity, the container list
\* given and createdAt = now.
C17_UpdateContainersInserts ==
    [][(last'.op = "UpdateContainers"
           /\ NoRecordOf(workloads[LedgerTarget].annotation, last'.policy, last'.args[1]))
          => \E rec \in Range(RecordsOf(workloads', LedgerTarget, last'.policy)) :
                /\ AreTheSameTrap(rec, last'.args[1])
                /\ rec.containers = last'.args[2]
                /\ rec.createdAt = now']_vars

\* UpdateContainers ran for a policy without a change on the workload: the
\* annotation is written and holds nothing of the policy.
C17_NothingInserted ==
    /\ last.op = "UpdateContainers"
    /\ workloads[LedgerTarget].annotation.present
    /\ RecordsOf(workloads, LedgerTarget, last.policy) = <<>>

\* The traps a pass for p leaves installed: none when p is being deleted.
Declared(p) == IF policies[p].deleting THEN <<>> ELSE policies[p].traps

SurplusAt(p, w) ==
    {j \in DOMAIN RecordsOf(workloads, w, p) :
        Surplus(RecordsOf(workloads, w, p)[j], Declared(p))}

\* The workload and record of the first RemoveDecoy call of a pass for p.
FirstRemoval(p) ==
    LET resources == GetAnnotatedResources(workloads, p)
        first == {i \in DOMAIN resources :
                    /\ SurplusAt(p, resources[i]) # {}
                    /\ \A k \in 1..(i - 1) : SurplusAt(p, resources[k]) = {}}
    IN UNION {{<<resources[i], RecordsOf(workloads, resources[i], p)[j]>> :
                 j \in {j \in SurplusAt(p, resources[i]) :
                           \A k \in SurplusAt(p, resources[i]) : j <= k}} :
              i \in first}

\* After the step the decoy of the record is in container c of workload w.
DecoyLeftIn(w, c, rec) ==
    IF rec.deploymentStrategy = "containerExec"
    THEN FileAt(workloads'[w].files, c, rec.filesystemHoneytoken.filePath) # {}
    ELSE \E m \in workloads'[w].mounts :
            /\ m.container = c
            /\ m.volume = generateVolumeName(rec.filesystemHoneytoken.filePath)

KeptAs(p, w, rec) ==
    {kept \in Range(RecordsOf(workloads', w, p)) : Equals(kept, rec, TRUE)}

\* C18: after RemoveDecoy on a record, the record is gone from the ledger
\* exactly when the decoy was removed from every container the record
\* lists; otherwise the record stays and lists exactly the containers the
\* decoy was not removed from.
C18_RecordKeepsResidualContainers ==
    [][\A p \in PolicyNames :
          (PassFor(p) /\ policies[p].exists /\ policies[p].finalizer)
              => \A x \in FirstRemoval(p) :
                    /\ KeptAs(p, x[1], x[2]) = {}
                           <=> \A c \in Range(x[2].containers) : ~DecoyLeftIn(x[1], c, x[2])
                    /\ \A kept \in KeptAs(p, x[1], x[2]) :
                           kept.containers =
                               SeqFilter(x[2].containers,
                                         {c \in Range(x[2].containers) :
                                             DecoyLeftIn(x[1], c, x[2])})]_vars

\* A pass without injected fault has taken the volume and every mount of a
\* removed volumeMount trap out of the deployment, and the record still
\* lists both containers.
C18_ClearedButRecorded ==
    /\ last.op = "Reconcile" /\ last.stage = "removalError" /\ last.fault = NoFault
    /\ \E rec \in Range(RecordsOf(workloads, "dep1", last.policy)) :
          /\ rec.deploymentStrategy = "volumeMount"
          /\ Surplus(rec, policies[last.policy].traps)
          /\ rec.containers = WorkloadInfo["dep1"].containers
          /\ workloads["dep1"].mounts = {} /\ workloads["dep1"].volumes = {}

\* The containers of workload w in the records of the trap for policy p, in
\* the workload state W.
RecordedIn(W, p, trap, w) ==
    {c \in Range(WorkloadInfo[w].containers) :
        \E rec \in Range(RecordsOf(W, w, p)) :
            AreTheSameTrap(rec, trap) /\ Contains(rec.containers, c)}

\* The exec calls of a log that ran in container c of pod w on the file path.
ExecsOf(log, w, c, path) ==
    SelectSeq(log, LAMBDA e : e.pod = w /\ e.container = c /\ e.path = path)

\* The exec calls of a deployment of the honeytoken in which every step
\* succeeded: mkdir, write, readback and, for a read-only file, chmod.
VerifiedDeployment(w, c, token) ==
    << Exec(w, c, token.filePath, "mkdir", TRUE),
       Exec(w, c, token.filePath, "write", TRUE),
       Exec(w, c, token.filePath, "cat", TRUE) >>
        \o (IF token.readOnly THEN <<Exec(w, c, token.filePath, "chmod", TRUE)>> ELSE <<>>)

\* The file of the honeytoken in container c of w reads as the expected
\* content once a trailing line break is cut from both.
ReadsAsExpected(W, w, c, token) ==
    /\ FileAt(W[w].files, c, token.filePath) # {}
    /\ TrimSuffix(ReadFile(W[w].files, c, token.filePath)) = TrimSuffix(token.fileContent)

\* C19: a container that a pass adds to the ledger record of a containerExec
\* trap had, in that pass, exactly the exec calls mkdir, write, readback and
\* (for a read-only file) chmod on the trap's file, in this order and all
\* successful, and its file reads as the expected content modulo a trailing
\* line break.
C19_RecordedOnlyAfterVerifiedDeployment ==
    [][\A p \in PolicyNames : PassFor(p) =>
          \A i \in DOMAIN policies[p].traps : \A w \in WorkloadIds :
              policies[p].traps[i].decoyStrategy = "containerExec" =>
                  \A c \in RecordedIn(workloads', p, policies[p].traps[i], w)
                              \ RecordedIn(workloads, p, policies[p].traps[i], w) :
                      /\ ExecsOf(last'.execs, w, c,
                                 policies[p].traps[i].filesystemHoneytoken.filePath)
                            = VerifiedDeployment(w, c,
                                 policies[p].traps[i].filesystemHoneytoken)
                      /\ ReadsAsExpected(workloads', w, c,
                                 policies[p].traps[i].filesystemHoneytoken)]_vars

\* A pass deployed a trap into a container whose shell left a line break
\* after the content, and recorded the container.
C19_RecordedAfterReadbackWithNewline ==
    /\ last.op = "Reconcile" /\ last.fault.exec = "newline"
    /\ \E i \in DOMAIN policies[last.policy].traps : \E w \in DeployPods :
          LET token == policies[last.policy].traps[i].filesystemHoneytoken
              c == last.fault.only
          IN /\ c \in RecordedFor(last.policy, policies[last.policy].traps[i], w)
             /\ ExecsOf(last.execs, w, c, token.filePath) = VerifiedDeployment(w, c, token)
             /\ ReadFile(workloads[w].files, c, token.filePath) # token.fileContent

\* The containers of pod w a pass deploys the trap of policy p to: the ready
\* ones among the selected containers of a matched pod.
DeployTargets(p, trap, w) ==
    IF IsValid(trap) /\ trap.decoyStrategy = "containerExec" /\ Targets(p, trap, w)
    THEN SelectedBy(trap, w) \cap workloads[w].ready
    ELSE {}

\* The pass whose exec log is log deployed the honeytoken to container c of w
\* and every step succeeded.
SucceededIn(log, w, c, token) ==
    ExecsOf(log, w, c, token.filePath) = VerifiedDeployment(w, c, token)

\* The pass deployed to container c of w and a step failed.
FailedIn(log, w, c, token) ==
    /\ ExecsOf(log, w, c, token.filePath) # <<>>
    /\ ~SucceededIn(log, w, c, token)

\* The pass for p failed to deploy some trap of p to a selected container.
DeployFailedOnce(p) ==
    \E i \in DOMAIN policies[p].traps : \E w \in WorkloadIds :
        \E c \in DeployTargets(p, policies[p].traps[i], w) :
            FailedIn(last'.execs, w, c, policies[p].traps[i].filesystemHoneytoken)

\* C20: in a pass in which deploying a trap fails on a selected container,
\* DeployDecoy returns an error to the reconciler, every other selected
\* container of every matched workload is recorded after the pass, having
\* been recorded before
\* or deployed to with success in the pass, and the record of every workload
\* lists exactly the containers that were deployed to with success in the
\* pass or were recorded before it.
C20_FailureStaysWithItsContainer ==
    [][\A p \in PolicyNames : (PassFor(p) /\ DeployFailedOnce(p)) =>
          /\ last'.seen
          /\ \A i \in DOMAIN policies[p].traps : \A w \in WorkloadIds :
                LET trap == policies[p].traps[i]
                    token == trap.filesystemHoneytoken
                    before == RecordedIn(workloads, p, trap, w)
                    after == RecordedIn(workloads', p, trap, w)
                    succeeded == {c \in Range(WorkloadInfo[w].containers) :
                                     SucceededIn(last'.execs, w, c, token)}
                IN /\ \A c \in DeployTargets(p, trap, w) :
                         ~FailedIn(last'.execs, w, c, token)
                             => c \in after /\ c \in before \cup succeeded
                   /\ after = before \cup succeeded]_vars

\* After a pass in which a deployment failed, the record of a pod lists a
\* container, and another container of the pod that holds the honeytoken and
\* was not deployed to in the pass, being unready, is not listed.
C20_RecordedContainerDropped ==
    /\ last.op = "Reconcile" /\ last.seen
    /\ \E e \in Range(last.execs) : ~e.ok
    /\ \E i \in DOMAIN policies[last.policy].traps : \E w \in DeployPods :
          LET trap == policies[last.policy].traps[i]
              token == trap.filesystemHoneytoken
              recorded == RecordedFor(last.policy, trap, w)
          IN /\ recorded # {}
             /\ \E c \in SelectedBy(trap, w) \ (recorded \cup workloads[w].ready) :
                   /\ ExecsOf(last.execs, w, c, token.filePath) = <<>>
                   /\ ReadsAsExpected(workloads, w, c, token)

\* What the latest call returned.
Returned == CHOOSE r \in last.expected : TRUE

\* The workloads of the kind that one filter alone matches, with their
\* containers.
MatchedAlone(kind, filter) ==
    getMatchingObjectsWithContainers(workloads, kind, <<filter>>)

ContainersIn(m, o) == IF o \in DOMAIN m THEN Range(m[o]) ELSE {}

NoDuplicates(seq) == \A j, k \in DOMAIN seq : seq[j] = seq[k] => j = k

\* C21: the workloads matched by Any = [F1, F2] are the workloads matched by
\* F1 alone together with those matched by F2 alone, and the container list
\* of each is without duplicates and holds the containers that F1 or F2
\* selects for it.
C21_AnyMatchesUnionOfFilters ==
    (last.op = "Match" /\ Len(last.args) = 2)
        => /\ DOMAIN Returned = DOMAIN MatchedAlone(last.policy, last.args[1])
                                    \cup DOMAIN MatchedAlone(last.policy, last.args[2])
           /\ \A o \in DOMAIN Returned :
                 /\ NoDuplicates(Returned[o])
                 /\ Range(Returned[o])
                       = ContainersIn(MatchedAlone(last.policy, last.args[1]), o)
                            \cup ContainersIn(MatchedAlone(last.policy, last.args[2]), o)

\* Any = [F1, F2] was matched, F1 alone matches a pod, F2 alone matches a pod
\* of the same name in another namespace, and the result holds only one of
\* the two pods.
C21_SameNameInTwoNamespaces ==
    /\ last.op = "Match" /\ Len(last.args) = 2
    /\ \E o1 \in DOMAIN MatchedAlone(last.policy, last.args[1]) :
          \E o2 \in DOMAIN MatchedAlone(last.policy, last.args[2]) :
             /\ WorkloadInfo[o1].name = WorkloadInfo[o2].name
             /\ WorkloadInfo[o1].namespace # WorkloadInfo[o2].namespace
             /\ o1 \in DOMAIN Returned /\ o2 \notin DOMAIN Returned

\* Workload o is in one of the namespaces the filter lists.
InNamespaces(filter, o) == WorkloadInfo[o].namespace \in Range(filter.namespaces)

\* Workload o carries every label the filter lists.
CarriesLabels(filter, o) == filter.matchLabels \subseteq workloads[o].labels

\* The existing workloads of the kind in which the filter selects a container.
Candidates(kind, filter) ==
    {o \in WorkloadIds :
        /\ workloads[o].exists /\ WorkloadInfo[o].kind = kind
        /\ selectContainers(o, filter.containerSelector) # <<>>}

\* C22: a filter with namespaces and labels matches a workload only if the
\* workload is in a listed namespace and carries every listed label; a filter
\* with namespaces only matches exactly the workloads in a listed namespace,
\* a filter with labels only exactly the workloads that carry the labels, and
\* a filter with neither matches nothing.
C22_FilterIsConjunction ==
    (last.op = "Match" /\ Len(last.args) = 1)
        => LET filter == last.args[1]
               hasNamespaces == Len(filter.namespaces) > 0
               hasLabels == filter.matchLabels # {}
           IN /\ (hasNamespaces /\ hasLabels)
                    => \A o \in DOMAIN Returned :
                          InNamespaces(filter, o) /\ CarriesLabels(filter, o)
              /\ (hasNamespaces /\ ~hasLabels)
                    => DOMAIN Returned
                          = {o \in Candidates(last.policy, filter) : InNamespaces(filter, o)}
              /\ (~hasNamespaces /\ hasLabels)
                    => DOMAIN Returned
                          = {o \in Candidates(last.policy, filter) : CarriesLabels(filter, o)}
              /\ (~hasNamespaces /\ ~hasLabels) => DOMAIN Returned = {}

\* A filter with namespaces and labels matched a workload that does not
\* carry the labels.
C22_MatchedWithoutLabel ==
    /\ last.op = "Match" /\ Len(last.args) = 1
    /\ Len(last.args[1].namespaces) > 0 /\ last.args[1].matchLabels # {}
    /\ \E o \in DOMAIN Returned :
          InNamespaces(last.args[1], o) /\ ~CarriesLabels(last.args[1], o)

\* C23: a deployment is in the deployable map only if it is Available, and a
\* container of a pod only if the pod is in phase Running and the container
\* is running and ready.
C23_DeployableIsReady ==
    last.op = "GetDeployable"
        => \A o \in DOMAIN Returned.deployable :
              IF WorkloadInfo[o].kind = "Deployment"
              THEN Range(WorkloadInfo[o].containers) \subseteq workloads[o].ready
              ELSE /\ workloads[o].phase = "Running"
                   /\ \A c \in Range(Returned.deployable[o]) :
                         c \in workloads[o].running /\ c \in workloads[o].ready

\* The deployable objects of a containerExec trap hold a pod without one of
\* its selected containers, which is not ready.
C23_PartiallyReadyPod ==
    /\ last.op = "GetDeployable" /\ last.args[1].decoyStrategy = "containerExec"
    /\ \E o \in DOMAIN Returned.deployable :
          \E c \in Range(selectContainers(o, last.args[1].any[1].containerSelector)) :
              /\ c \notin workloads[o].ready
              /\ c \notin Range(Returned.deployable[o])

\* The matched set of the latest call of GetDeployableObjectsWithContainers:
\* the objects of the trap's kind that match its filters, carry no deletion
\* timestamp and are younger than createdAfter, before readiness is looked at.
MatchedSet ==
    filterObjectsCreatedAfterTimestamp(workloads,
        filterObjectsWithoutDeletionTimestamp(workloads,
            getMatchingObjectsWithContainers(workloads,
                IF last.args[1].decoyStrategy = "containerExec" THEN "Pod" ELSE "Deployment",
                last.args[1].any)),
        last.args[2])

\* Readiness filtering dropped a matched workload or a selected container.
Dropped ==
    \E o \in DOMAIN MatchedSet :
        \/ o \notin DOMAIN Returned.deployable
        \/ Range(Returned.deployable[o]) # Range(MatchedSet[o])

\* C24: when at least one workload matched, allReady is false exactly when
\* readiness filtering dropped a matched workload or a selected container.
C24_AllReadyIffNothingDropped ==
    (last.op = "GetDeployable" /\ Returned.anyMatched)
        => (~Returned.allReady <=> Dropped)

\* A call found a matched pod, dropped nothing and still said that not all
\* were ready.
C24_NotReadyButNothingDropped ==
    /\ last.op = "GetDeployable" /\ Returned.anyMatched
    /\ ~Returned.allReady
    /\ ~Dropped

\* The cluster as a pass reads it.
ClusterNow ==
    [W |-> workloads, S |-> secrets, T |-> tracingPolicies, gen |-> {}, execs |-> <<>>]

\* What a pass for p from the current state does when nothing fails.
Faultless(p) == ReconcileOutcome(ClusterNow, p, policies[p], NoFault, now)

\* The pass for p got as far as the captors of a valid trap in a cluster
\* without the tracing-policy kind.
CaptorKindMissing(p) ==
    /\ PassFor(p)
    /\ last'.fault = [NoFault EXCEPT !.tetragon = TRUE]
    /\ last'.stage = "deployed"
    /\ filterValidTraps(policies[p].traps) # <<>>

TargetsOf(p, trap) == {w \in WorkloadIds : Targets(p, trap, w)}

\* Policy p has one trap, which is valid and matches two pods, one of them
\* fully ready and the other not.
OneReadyOneNot(p) ==
    /\ policies[p].exists /\ ~policies[p].deleting /\ policies[p].finalizer
    /\ Len(policies[p].traps) = 1
    /\ IsValid(policies[p].traps[1])
    /\ policies[p].traps[1].decoyStrategy = "containerExec"
    /\ Cardinality(TargetsOf(p, policies[p].traps[1])) = 2
    /\ \E w1, w2 \in TargetsOf(p, policies[p].traps[1]) :
          w1 # w2 /\ FullyReady(w1) /\ ~FullyReady(w2)

\* C26: a pass without fault for a policy whose one trap matches two pods,
\* one ready and one not, sets the message of DecoysDeployed to
\* "1/1 decoys deployed (0 skipped)" and asks for the retry after the short
\* interval.
C26_UnreadyPodCountsAsSuccess ==
    [][\A p \in PolicyNames :
          (OneReadyOneNot(p) /\ PassFor(p) /\ last'.fault = NoFault)
              => /\ policies'[p].conds["DecoysDeployed"].message
                       = "1/1 decoys deployed (0 skipped)"
                 /\ last'.requeueAfter = ShortStatusCheckInterval]_vars

\* After a pass without fault the trap is recorded on the ready pod, the
\* other matching pod is not fully ready, the pass asked for the short
\* retry, and DecoysDeployed says that no objects matched.
C26_DeployedButNoObjectsMatched ==
    /\ last.op = "Reconcile" /\ last.fault = NoFault /\ last.stage = "deployed"
    /\ OneReadyOneNot(last.policy)
    /\ \E w \in TargetsOf(last.policy, policies[last.policy].traps[1]) :
          /\ FullyReady(w)
          /\ RecordedFor(last.policy, policies[last.policy].traps[1], w)
                = SelectedBy(policies[last.policy].traps[1], w)
    /\ last.requeueAfter = ShortStatusCheckInterval
    /\ policies[last.policy].conds["DecoysDeployed"].status = "False"
    /\ policies[last.policy].conds["DecoysDeployed"].reason = "NoObjectsMatched"
    /\ policies[last.policy].conds["DecoysDeployed"].message
          = "No objects matching selection criteria"

\* The only trap of policy p, which is installed, has been removed from its
\* spec.
OnlyTrapRemoved(p) ==
    /\ policies[p].exists /\ ~policies[p].deleting /\ policies[p].finalizer
    /\ policies[p].traps = <<>>
    /\ policies[p].conds["DecoysDeployed"].status = "True"
    /\ Installed(p)

\* C27: the pass without fault that follows the removal of the only trap of
\* a deployed policy sets DecoysDeployed to False with the reason
\* NoObjectsMatched.
C27_NoObjectsAfterTrapRemoval ==
    [][\A p \in PolicyNames :
          (OnlyTrapRemoved(p) /\ PassFor(p) /\ last'.fault = NoFault)
              => /\ policies'[p].conds["DecoysDeployed"].status = "False"
                 /\ policies'[p].conds["DecoysDeployed"].reason = "NoObjectsMatched"]_vars

\* A pass without fault has removed the decoys of a policy that has no trap
\* left, and DecoysDeployed is Unknown with the reason DecoyDeploymentPending.
C27_PendingAfterTrapRemoval ==
    /\ last.op = "Reconcile" /\ last.fault = NoFault /\ ~last.err
    /\ policies[last.policy].exists /\ ~policies[last.policy].deleting
    /\ policies[last.policy].traps = <<>>
    /\ ~Installed(last.policy)
    /\ last.execs # <<>>
    /\ policies[last.policy].conds["DecoysDeployed"].status = "Unknown"
    /\ policies[last.policy].conds["DecoysDeployed"].reason = "DecoyDeploymentPending"

\* Policy p does not mutate existing workloads, every workload there is was
\* created no later than p, and nothing of p is installed.
CreatedAfterItsWorkloads(p) ==
    /\ policies[p].exists /\ ~policies[p].deleting
    /\ ~policies[p].mutateExisting
    /\ \A w \in WorkloadIds :
          workloads[w].exists => workloads[w].createdAt <= policies[p].createdAt
    /\ \E w \in WorkloadIds : \E i \in DOMAIN policies[p].traps :
          /\ workloads[w].exists /\ ~workloads[w].deleting
          /\ \E j \in DOMAIN policies[p].traps[i].any :
                Selects(policies[p].traps[i].any[j], w)
    /\ ~Installed(p)

\* C28: a pass without fault for a policy with mutateExisting = false that
\* was created after all matching workloads creates no tracing policy and
\* changes no workload and no secret.
C28_NoMutateExistingCreatesNothing ==
    [][\A p \in PolicyNames :
          (CreatedAfterItsWorkloads(p) /\ PassFor(p) /\ last'.fault = NoFault)
              => /\ tracingPolicies' = tracingPolicies
                 /\ workloads' = workloads
                 /\ secrets' = secrets]_vars

\* After a pass without fault for such a policy no workload carries a record
\* and there is no secret, but a tracing policy owned by the policy exists.
C28_TracingPolicyWithoutDecoy ==
    /\ last.op = "Reconcile" /\ last.fault = NoFault /\ last.stage = "deployed"
    /\ CreatedAfterItsWorkloads(last.policy)
    /\ secrets = {}
    /\ \E tp \in tracingPolicies : tp.owner = last.policy

\* Policy p has traps, all of them valid, and no workload matches any of them.
NothingMatches(p) ==
    /\ policies[p].exists /\ ~policies[p].deleting /\ policies[p].finalizer
    /\ policies[p].traps # <<>>
    /\ filterValidTraps(policies[p].traps) = policies[p].traps
    /\ \A i \in DOMAIN policies[p].traps : TargetsOf(p, policies[p].traps[i]) = {}

\* C29: a pass without fault for a policy none of whose traps matches a
\* workload sets CaptorsDeployed to False with the reason NoObjectsMatched.
C29_CaptorsNeedAMatch ==
    [][\A p \in PolicyNames :
          (NothingMatches(p) /\ PassFor(p) /\ last'.fault = NoFault)
              => /\ policies'[p].conds["CaptorsDeployed"].status = "False"
                 /\ policies'[p].conds["CaptorsDeployed"].reason = "NoObjectsMatched"]_vars

\* After a pass without fault for a policy whose traps match nothing,
\* DecoysDeployed says that no objects matched and CaptorsDeployed is True
\* with the reason CaptorDeploymentSucceeded.
C29_CaptorsSucceededWithoutMatch ==
    /\ last.op = "Reconcile" /\ last.fault = NoFault /\ last.stage = "deployed"
    /\ NothingMatches(last.policy)
    /\ policies[last.policy].conds["DecoysDeployed"].reason = "NoObjectsMatched"
    /\ policies[last.policy].conds["CaptorsDeployed"].status = "True"
    /\ policies[last.policy].conds["CaptorsDeployed"].reason = "CaptorDeploymentSucceeded"

\* The records in the ledger of the workload, of every policy.
LedgerRecords ==
    UNION {Range(RecordsOf(workloads, LedgerTarget, p)) : p \in PolicyNames}

\* The traps a record is compared with: the traps the ledger operations are
\* called with, and each of them with another strategy, another path or the
\* other readOnly.
ComparedTraps ==
    LedgerTraps
        \cup {[trap EXCEPT !.decoyStrategy = "volumeMount"] : trap \in LedgerTraps}
        \cup {[trap EXCEPT !.filesystemHoneytoken.filePath = MountPath] : trap \in LedgerTraps}
        \cup {[trap EXCEPT !.filesystemHoneytoken.readOnly = ~@] : trap \in LedgerTraps}

\* rec is what the conversion of trap gives, with the containers and the
\* times rec has.
ConvertedFrom(rec, trap) ==
    [convertTrapToTrapAnnotation(trap, rec.containers, rec.createdAt)
        EXCEPT !.updatedAt = rec.updatedAt] = rec

\* rec and trap differ in the strategy, the path, the hash of the content or
\* readOnly.
IdentityDiffers(rec, trap) ==
    \/ rec.deploymentStrategy # trap.decoyStrategy
    \/ rec.filesystemHoneytoken.filePath # trap.filesystemHoneytoken.filePath
    \/ rec.filesystemHoneytoken.fileContentHash # Hash(trap.filesystemHoneytoken.fileContent)
    \/ rec.filesystemHoneytoken.readOnly # trap.filesystemHoneytoken.readOnly

\* C30: for every record in the ledger and every trap, AreTheSameTrap is true
\* when the record is the conversion of the trap, false when the strategy,
\* the path, the hash of the content or readOnly differs, and the same for
\* every container list the record may have.
C30_TrapIdentity ==
    \A rec \in LedgerRecords : \A trap \in ComparedTraps :
        /\ ConvertedFrom(rec, trap) => AreTheSameTrap(rec, trap)
        /\ IdentityDiffers(rec, trap) => ~AreTheSameTrap(rec, trap)
        /\ \A containers \in ContainerLists \cup {<<>>} :
              AreTheSameTrap([rec EXCEPT !.containers = containers], trap)
                  = AreTheSameTrap(rec, trap)

\* Add has recorded a trap: the record is the same trap as the trap it was
\* converted from, also with another container list, and is not the same
\* trap as the trap with the other readOnly.
C30_RecordComparedWithTraps ==
    /\ last.op = "Add"
    /\ \E rec \in Range(RecordsOf(workloads, LedgerTarget, last.policy)) :
          /\ ConvertedFrom(rec, last.args[1])
          /\ rec.containers = last.args[2]
          /\ AreTheSameTrap(rec, last.args[1])
          /\ \E containers \in ContainerLists :
                /\ containers # rec.containers
                /\ AreTheSameTrap([rec EXCEPT !.containers = containers], last.args[1])
          /\ ~AreTheSameTrap(rec, [last.args[1] EXCEPT !.filesystemHoneytoken.readOnly = ~@])

\* C31: the container list of every record in the ledger of every workload
\* holds no container name twice.
C31_RecordedContainersUnique ==
    \A w \in WorkloadIds : \A p \in PolicyNames :
        \A rec \in Range(RecordsOf(workloads, w, p)) : NoDuplicates(rec.containers)

\* A pass has recorded a trap with two filters, the first selecting one
\* container and the second every container, with the two containers of the
\* deployment.
C31_OverlappingSelectorsRecorded ==
    /\ last.op = "Reconcile"
    /\ policies[last.policy].traps = <<TwoFilterMount>>
    /\ \E rec \in Range(RecordsOf(workloads, "dep1", last.policy)) :
          /\ AreTheSameTrap(rec, TwoFilterMount)
          /\ rec.containers = WorkloadInfo["dep1"].containers

\* Traps a and b agree on the strategy, the path, the hash of the content and
\* readOnly.
SameIdentity(a, b) ==
    /\ a.decoyStrategy = b.decoyStrategy
    /\ a.filesystemHoneytoken.filePath = b.filesystemHoneytoken.filePath
    /\ Hash(a.filesystemHoneytoken.fileContent) = Hash(b.filesystemHoneytoken.fileContent)
    /\ a.filesystemHoneytoken.readOnly = b.filesystemHoneytoken.readOnly

\* The traps whose names are compared with those of a declared trap.
NamedTraps == {ExecTrap, WideTrap, TwoFilterTrap, WritableTrap, VolumeTrap, TwoFilterMount}

SameSecretAndVolumeName(a, b) ==
    /\ generateSecretName(a) = generateSecretName(b)
    /\ generateVolumeName(a.filesystemHoneytoken.filePath)
          = generateVolumeName(b.filesystemHoneytoken.filePath)

\* The traps that policies declare and passes have deployed captors for.
DeclaredTraps ==
    UNION {Range(policies[p].traps) : p \in {q \in PolicyNames : policies[q].exists}}

\* C32: a trap that a policy declares and any trap that agrees with it on the
\* strategy, the path, the hash of the content and readOnly have the same
\* secret name, the same volume name and the same tracing-policy name.
C32_NamesDependOnIdentityOnly ==
    \A a \in DeclaredTraps : \A b \in NamedTraps :
        SameIdentity(a, b)
            => /\ SameSecretAndVolumeName(a, b)
               /\ GenerateTetragonTracingPolicyName(a) = GenerateTetragonTracingPolicyName(b)

\* A pass has deployed the volumeMount trap with two filters: the secret and
\* the volume carry the names of VolumeTrap, which has the same identity,
\* and the tracing policy that exists does not carry the name of VolumeTrap.
C32_SameIdentityOtherTracingPolicy ==
    /\ last.op = "Reconcile"
    /\ policies[last.policy].traps = <<TwoFilterMount>>
    /\ SameIdentity(TwoFilterMount, VolumeTrap)
    /\ \E sec \in secrets : sec.name = generateSecretName(VolumeTrap)
    /\ \E v \in workloads["dep1"].volumes :
          v.name = generateVolumeName(VolumeTrap.filesystemHoneytoken.filePath)
    /\ \E tp \in tracingPolicies : tp.name = GenerateTetragonTracingPolicyName(TwoFilterMount)
    /\ \A tp \in tracingPolicies : tp.name # GenerateTetragonTracingPolicyName(VolumeTrap)

\* The condition handed to PutCondition differs from the stored one of its
\* type in status, reason or message, or no condition of the type is stored.
PutChanges(ty, c) ==
    \/ policies[CondPolicy].conds[ty] = NoCondition
    \/ policies[CondPolicy].conds[ty].status # c.status
    \/ policies[CondPolicy].conds[ty].reason # c.reason
    \/ policies[CondPolicy].conds[ty].message # c.message

\* C33: a call of PutCondition that changes status, reason or message, or
\* adds the type, stores the condition with the time of the call and returns
\* true; any other call leaves the stored condition, its LastTransitionTime
\* included, as it is and returns false; the conditions of the other types
\* stay as they are.
C33_PutConditionTransitions ==
    [][last'.op = "PutCondition"
          => /\ IF PutChanges(last'.policy, last'.args[1])
                THEN /\ policies'[CondPolicy].conds[last'.policy]
                           = [last'.args[1] EXCEPT !.lastTransitionTime = now']
                     /\ last'.expected = {TRUE}
                ELSE /\ policies'[CondPolicy].conds[last'.policy]
                           = policies[CondPolicy].conds[last'.policy]
                     /\ last'.expected = {FALSE}
             /\ \A ty \in CondTypes \ {last'.policy} :
                   policies'[CondPolicy].conds[ty] = policies[CondPolicy].conds[ty]]_vars

\* A condition stored at time 0 was put again at time 1 with the same status,
\* reason and message: it keeps its LastTransitionTime and the call returned
\* false, next to a condition of another type that was put before.
C33_SamePutKeepsTime ==
    /\ last.op = "PutCondition"
    /\ now = 1
    /\ last.expected = {FALSE}
    /\ ConditionEquals(policies[CondPolicy].conds[last.policy], last.args[1])
    /\ policies[CondPolicy].conds[last.policy].lastTransitionTime = 0
    /\ \E ty \in CondTypes \ {last.policy} : policies[CondPolicy].conds[ty] # NoCondition

\* Container c of workload w carries the decoy of record rec: the file for
\* containerExec, the volume and its mount for volumeMount.
CarriesDecoy(w, rec, c) ==
    IF rec.deploymentStrategy = "containerExec"
    THEN FileAt(workloads[w].files, c, rec.filesystemHoneytoken.filePath) # {}
    ELSE /\ \E v \in workloads[w].volumes :
               v.name = generateVolumeName(rec.filesystemHoneytoken.filePath)
         /\ \E m \in workloads[w].mounts :
               /\ m.container = c
               /\ m.volume = generateVolumeName(rec.filesystemHoneytoken.filePath)

\* C34: every container that a record in the ledger of a workload lists
\* carries the decoy of the record.
C34_RecordedDecoysStay ==
    \A w \in WorkloadIds : \A p \in PolicyNames :
        workloads[w].exists
            => \A rec \in Range(RecordsOf(workloads, w, p)) :
                  \A c \in Range(rec.containers) : CarriesDecoy(w, rec, c)

\* The pass that finalized one policy has removed the file that the record
\* of another policy, which still exists, lists for a container.
C34_DecoyOfOtherPolicyRemoved ==
    /\ last.op = "Reconcile" /\ last.stage = "finalized"
    /\ ~policies[last.policy].exists
    /\ \E p \in PolicyNames \ {last.policy} : \E w \in WorkloadIds :
          /\ policies[p].exists /\ ~policies[p].deleting
          /\ workloads[w].exists
          /\ \E rec \in Range(RecordsOf(workloads, w, p)) :
                \E c \in Range(rec.containers) : ~CarriesDecoy(w, rec, c)

\* C35: a pass without fault for a policy keeps every container in the
\* record of a declared trap that the record listed before the pass and that
\* still holds the honeytoken after it.
C35_InstalledStaysRecorded ==
    [][\A p \in PolicyNames :
          (PassFor(p) /\ last'.fault = NoFault /\ policies[p].exists /\ ~policies[p].deleting)
              => \A i \in DOMAIN policies[p].traps : \A w \in DeployPods :
                    \A c \in RecordedIn(workloads, p, policies[p].traps[i], w) :
                        FileAt(workloads'[w].files, c,
                               policies[p].traps[i].filesystemHoneytoken.filePath) # {}
                            => c \in RecordedIn(workloads', p, policies[p].traps[i], w)]_vars

\* After a pass in which no call failed, a container of a pod that is not
\* ready holds the honeytoken of a declared trap, as the pass before left it,
\* and the record of the trap, which lists another container of the pod,
\* does not list it.
C35_UnreadyContainerDropped ==
    /\ last.op = "Reconcile" /\ last.fault = NoFault /\ ~last.seen /\ ~last.err
    /\ policies[last.policy].exists /\ ~policies[last.policy].deleting
    /\ \E i \in DOMAIN policies[last.policy].traps : \E w \in DeployPods :
          LET trap == policies[last.policy].traps[i]
              recorded == RecordedIn(workloads, last.policy, trap, w)
          IN /\ recorded # {}
             /\ \E c \in SelectedBy(trap, w) \ (recorded \cup workloads[w].ready) :
                   /\ ExecsOf(last.execs, w, c, trap.filesystemHoneytoken.filePath) = <<>>
                   /\ FileAt(workloads[w].files, c, trap.filesystemHoneytoken.filePath) # {}

\* The policies, in the policy state P, that exist and declare the trap.
DeclaringIn(P, trap) == {p \in PolicyNames : P[p].exists /\ trap \in Range(P[p].traps)}

\* The tracing policy of the trap exists among T.
CaptorIn(T, trap) == \E tp \in T : tp.name = GenerateTetragonTracingPolicyName(trap)

\* C36: when two policies declare the same trap and its tracing policy
\* exists, the tracing policy still exists after every step after which a
\* policy that is not being deleted declares the trap.
C36_SharedCaptorStays ==
    [][\A trap \in DeclaredTraps :
          (/\ Cardinality(DeclaringIn(policies, trap)) = 2
           /\ CaptorIn(tracingPolicies, trap)
           /\ \E p \in DeclaringIn(policies', trap) : ~policies'[p].deleting)
              => CaptorIn(tracingPolicies', trap)]_vars

\* The pass that finalized one policy has left a policy that exists, is not
\* being deleted and reports its captors as deployed without the tracing
\* policy of its trap.
C36_CaptorGoneWithOtherPolicy ==
    /\ last.op = "Reconcile" /\ last.stage = "finalized"
    /\ ~policies[last.policy].exists
    /\ \E p \in PolicyNames \ {last.policy} : \E i \in DOMAIN policies[p].traps :
          /\ policies[p].exists /\ ~policies[p].deleting
          /\ policies[p].conds["CaptorsDeployed"].status = "True"
          /\ ~CaptorIn(tracingPolicies, policies[p].traps[i])

\* The secret that volume v of workload w refers to.
SecretOf(w, v) == [namespace |-> WorkloadInfo[w].namespace, name |-> v.secret]

\* The call of client c is a removeDecoyWithVolumeMount for a container that
\* has the mount, and this step is its last request.
UnmountReturns(c) ==
    /\ calls[c].kind = "unmount" /\ calls[c].pc = "update" /\ calls'[c].pc = "done"
    /\ \E m \in workloads[CallTarget].mounts : m.container = calls[c].container

\* C37: a removal of a volumeMount decoy from a container that has the mount
\* deletes no secret that a volume in the pod template of a workload refers
\* to after the step.
C37_ReferencedSecretStays ==
    [][\A c \in Clients : \A sec \in secrets \ secrets' : \A w \in WorkloadIds :
          (UnmountReturns(c) /\ workloads'[w].exists)
              => \A v \in workloads'[w].volumes : SecretOf(w, v) # sec]_vars

\* The update of a removeDecoyWithVolumeMount call for a mounted container
\* was not accepted, the call has deleted the secret, and the deployment
\* still has the volume that refers to it, mounted in that container.
C37_SecretDeletedUnderVolume ==
    /\ last.op = "UpdateCall"
    /\ calls[last.policy].kind = "unmount"
    /\ calls[last.policy].pc = "done"
    /\ calls[last.policy].result \in {"invalid", "conflict"}
    /\ \E v \in workloads[CallTarget].volumes :
          /\ SecretOf(CallTarget, v) = CallSecret
          /\ CallSecret \notin secrets
          /\ \E m \in workloads[CallTarget].mounts :
                m.volume = v.name /\ m.container = calls[last.policy].container

\* The ledger of the target has a record of VolumeTrap for the policy of c.
Recorded(c) ==
    AlreadyDeployed(GetAnnotationChange(workloads[CallTarget].annotation, CallPolicy(c)),
                    VolumeTrap) # <<>>

\* The calls that write the ledger annotation of the target.
LedgerKinds == {"annotate", "unannotate"}

\* The containers of the records of VolumeTrap for the policy of c; the
\* removal of a record takes the record with the containers it was read with.
RecordedContainers(c) ==
    Range(AlreadyDeployed(
              GetAnnotationChange(workloads[CallTarget].annotation, CallPolicy(c)),
              VolumeTrap))

\* C38: the ledger writes of two reconciliations on one workload lose
\* nothing: a write gives up with a conflict only after RetrySteps foreign
\* writes, and once the write of a policy's record (or of its removal) has
\* succeeded the record is in (or out of) the ledger whatever the other
\* reconciliation writes before the call returns.
C38_NoLedgerUpdateLost ==
    \A c \in Clients :
        (calls[c].kind \in LedgerKinds /\ calls[c].pc = "done")
            => /\ calls[c].result \in {"ok", "conflict"}
               /\ calls[c].result = "conflict" => calls[c].touched >= RetrySteps
               /\ calls[c].result = "ok"
                     => IF calls[c].kind = "annotate" THEN Recorded(c)
                        ELSE calls[c].container \notin RecordedContainers(c)

\* Both reconciliations have written their record, one of them on its
\* second attempt because the other's write came between its read and its
\* write; the ledger has both records.
C38_BothRecordedAfterConflict ==
    /\ \A c \in Clients :
          calls[c].kind = "annotate" /\ calls[c].result = "ok" /\ Recorded(c)
    /\ \E c \in Clients : calls[c].tries = 1 /\ calls[c].touched = 1

\* The trap of policy p1, when it has one.
SelectorTrap == Head(policies["p1"].traps)

\* The pods whose ledger has a record of trap for policy p in W.
PodsWithDecoy(W, p, trap) ==
    {w \in SelectorPods :
        W[w].exists /\ AlreadyDeployed(RecordsOf(W, w, p), trap) # <<>>}

\* C39: when a pass has deployed the containerExec decoy of a valid trap to
\* a pod, the tracing policy of the trap exists and its PodSelector selects
\* the pod.
C39_PodSelectorSelectsDecoyPods ==
    [][(policies'["p1"].traps # <<>> /\ IsValid(Head(policies'["p1"].traps)))
          => \A w \in PodsWithDecoy(workloads', "p1", Head(policies'["p1"].traps))
                    \ PodsWithDecoy(workloads, "p1", Head(policies'["p1"].traps)) :
                /\ \E tp \in tracingPolicies' :
                      tp.name = GenerateTetragonTracingPolicyName(
                                    Head(policies'["p1"].traps))
                /\ PodSelectorSelects(Head(policies'["p1"].traps),
                                      workloads'[w].labels)]_vars

\* A trap with two filters is deployed to a pod that only one filter
\* matches; the tracing policy of the trap exists and its PodSelector does
\* not select the pod.
C39_DecoyPodNotSelected ==
    /\ last.op = "Reconcile" /\ ~last.err
    /\ policies["p1"].traps # <<>>
    /\ Len(SelectorTrap.any) = 2
    /\ \E tp \in tracingPolicies : tp.name = GenerateTetragonTracingPolicyName(SelectorTrap)
    /\ \E w \in PodsWithDecoy(workloads, "p1", SelectorTrap) :
          ~PodSelectorSelects(SelectorTrap, workloads[w].labels)

\* The record is of a volumeMount trap in two or more containers.
MountedInSeveral(rec) ==
    rec.deploymentStrategy = "volumeMount" /\ Len(rec.containers) >= 2

\* C40: a pass without fault whose RemoveDecoy works on a volumeMount record
\* that lists two or more containers of a deployment takes the mount out of
\* every listed container and the volume out of the pod template, ends
\* without removal error, and takes the record out of the ledger.
C40_RemoveDecoyFromAllContainers ==
    [][\A p \in PolicyNames :
          (PassFor(p) /\ last'.fault = NoFault
              /\ policies[p].exists /\ policies[p].finalizer)
              => \A x \in FirstRemoval(p) :
                    MountedInSeveral(x[2])
                        => /\ \A c \in Range(x[2].containers) : ~DecoyLeftIn(x[1], c, x[2])
                           /\ \A v \in workloads'[x[1]].volumes :
                                 v.name # generateVolumeName(
                                              x[2].filesystemHoneytoken.filePath)
                           /\ last'.stage # "removalError"
                           /\ KeptAs(p, x[1], x[2]) = {}]_vars

\* A pass without injected fault has ended with a removal error on the
\* record of a volumeMount trap in both containers of the deployment: the
\* secret is deleted and the record is still in the ledger.
C40_RemovalErrorWithoutFault ==
    /\ last.op = "Reconcile" /\ last.stage = "removalError" /\ last.fault = NoFault
    /\ last.err
    /\ \E rec \in Range(RecordsOf(workloads, "dep1", last.policy)) :
          /\ MountedInSeveral(rec)
          /\ Surplus(rec, policies[last.policy].traps)
          /\ \A sec \in secrets :
                sec.namespace # WorkloadInfo["dep1"].namespace

====
